---------------------------- MODULE Spec2Model ----------------------------
(***************************************************************************)
(* Model of the NSE Trader analysis code.                                  *)
(*                                                                         *)
(*   nse_trader/technical_analysis.py  TechnicalAnalyzer over a bare list  *)
(*                                     of closes (the signal engine)       *)
(*   nse_trader/analysis.py            TechnicalAnalyzer over a bar series *)
(*                                     (the comprehensive report)          *)
(*                                                                         *)
(* Numbers are exact rationals [n, d] in lowest terms with d > 0.  The     *)
(* code computes in IEEE doubles; the two agree except where a comparison  *)
(* is decided by a rounding error.  The pandas values NaN, +inf and None   *)
(* are separate kinds of number (field k).  A standard deviation is kept   *)
(* as a + b * sqrt(v) with rational a, b, v, so that comparisons against   *)
(* a band are exact.                                                       *)
(***************************************************************************)
EXTENDS Integers, Sequences, FiniteSets, TLC

VARIABLES
    prices,     \* technical_analysis: the argument `prices` of the call
    data,       \* analysis.py: the Close column of the DataFrame given to analyze_stock
    analysis,   \* analysis.py: the mapping analyze_stock returned, or the one given
                \* to generate_signals
    call,       \* the operation applied last ("none" before any call)
    ret,        \* the outcome of that call: a returned value or a raised exception
    position,   \* backtesting: the Position object at hand, or None
    stack,      \* data_fetcher: the frames of calculate_entry_exit_points and
                \* get_historical_data under way, the innermost last
    bt          \* backtesting: the Backtester's run (bars, strategy, cash, open
                \* position, result), or None

vars == <<prices, data, analysis, call, ret, position, stack, bt>>

-----------------------------------------------------------------------------
(* Evaluation.                                                             *)

\* F(v), with v computed once, before F is.
Bind(v, F(_)) == CHOOSE r \in {F(z) : z \in {v}} : TRUE

\* for i in range(lo, hi): acc = Step(acc, i), run as the first half of the
\* range followed by the second half.
RECURSIVE LoopV(_, _, _, _)
LoopV(Step(_, _), a, l, h) ==
    IF h <= l THEN a
    ELSE IF h = l + 1 THEN Step(a, l)
    ELSE Bind((l + h) \div 2, LAMBDA mid :
         Bind(LoopV(Step, a, l, mid), LAMBDA half : LoopV(Step, half, mid, h)))

Loop(Step(_, _), acc, lo, hi) ==
    Bind(acc, LAMBDA a : Bind(lo, LAMBDA l : Bind(hi, LAMBDA h : LoopV(Step, a, l, h))))

-----------------------------------------------------------------------------
(* Exact arithmetic.                                                       *)

Abs(x) == IF x < 0 THEN -x ELSE x
Min(a, b) == IF a < b THEN a ELSE b

RECURSIVE Gcd(_, _)
Gcd(a, b) == IF b = 0 THEN a ELSE Gcd(b, a % b)

\* The rational n/d in lowest terms, d > 0.
Q(n, d) ==
    Bind(n, LAMBDA n0 : Bind(d, LAMBDA d0 :
    Bind(Gcd(Abs(n0), Abs(d0)), LAMBDA g :
        IF d0 < 0 THEN [k |-> "num", n |-> (-n0) \div g, d |-> (-d0) \div g]
        ELSE [k |-> "num", n |-> n0 \div g, d |-> d0 \div g])))

R(i) == [k |-> "num", n |-> i, d |-> 1]

IsNum(x) == x.k = "num"

Lcm(a, b) == (a \div Gcd(a, b)) * b

QAdd(x, y) ==
    Bind(x, LAMBDA a : Bind(y, LAMBDA b : Bind(Lcm(a.d, b.d), LAMBDA l :
        Q(a.n * (l \div a.d) + b.n * (l \div b.d), l))))

QNeg(x) == Bind(x, LAMBDA a : [k |-> "num", n |-> -a.n, d |-> a.d])
QSub(x, y) == QAdd(x, QNeg(y))

\* Common factors are taken out across the product before multiplying.
QMul(x, y) ==
    Bind(x, LAMBDA a : Bind(y, LAMBDA b :
    Bind(Gcd(Abs(a.n), b.d), LAMBDA g1 : Bind(Gcd(Abs(b.n), a.d), LAMBDA g2 :
        Q((a.n \div g1) * (b.n \div g2), (a.d \div g2) * (b.d \div g1))))))

\* y is not zero.
QDiv(x, y) == Bind(y, LAMBDA b : QMul(x, Q(b.d, b.n)))

QSign(x) == Bind(x, LAMBDA a : IF a.n < 0 THEN -1 ELSE IF a.n > 0 THEN 1 ELSE 0)
QLt(x, y) == QSign(QSub(x, y)) < 0
QGt(x, y) == QLt(y, x)
QLe(x, y) == ~QLt(y, x)
QGe(x, y) == ~QLt(x, y)
QIsZero(x) == QSign(x) = 0
QMax(x, y) == Bind(x, LAMBDA a : Bind(y, LAMBDA b : IF QLt(a, b) THEN b ELSE a))

\* sign(x) * x^2: it orders rationals as x does.
SignedSquare(x) == Bind(x, LAMBDA a : QMul(R(QSign(a)), QMul(a, a)))

\* a + b * sqrt(v), v >= 0.
Surd(a, b, v) == [k |-> "surd", a |-> a, b |-> b, v |-> v]

\* sign(b) * b^2 * v: it orders the values b * sqrt(v).
SurdPart(s) == Bind(s, LAMBDA t : QMul(SignedSquare(t.b), t.v))

\* x > a + b * sqrt(v), that is x - a > b * sqrt(v), decided on the signed squares.
QGtSurd(x, s) == QGt(SignedSquare(QSub(x, s.a)), SurdPart(s))
QLtSurd(x, s) == QLt(SignedSquare(QSub(x, s.a)), SurdPart(s))

\* The sum of s[lo + 1 .. hi], as the sum of its two halves.
RECURSIVE RangeSum(_, _, _)
RangeSum(s, lo, hi) ==
    IF hi <= lo THEN R(0)
    ELSE IF hi = lo + 1 THEN s[hi]
    ELSE Bind((lo + hi) \div 2, LAMBDA mid :
             QAdd(RangeSum(s, lo, mid), RangeSum(s, mid, hi)))

SeqSum(s) == Bind(s, LAMBDA v : RangeSum(v, 0, Len(v)))

\* list(f): the stored sequence of the values of f.
AsList(f) == <<>> \o f

\* Python's s[a:b] with 0 <= a, on a 1-based sequence.
Slice(s, a, b) ==
    Bind(s, LAMBDA v : Bind(Min(b, Len(v)), LAMBDA hi :
        IF a >= hi THEN <<>> ELSE SubSeq(v, a + 1, hi)))

\* Python's s[-n:], n >= 1.
LastN(s, n) ==
    Bind(s, LAMBDA v : IF n >= Len(v) THEN v ELSE SubSeq(v, Len(v) - n + 1, Len(v)))

Rats(s) == Bind(s, LAMBDA v : AsList([i \in 1..Len(v) |-> R(v[i])]))

Flat(v, n) == AsList([i \in 1..n |-> v])

-----------------------------------------------------------------------------
(* Python values and outcomes.                                             *)

\* A call either returns a value or ends in a raised exception.
Ok(v) == [raised |-> FALSE, value |-> v]
Raise(e) == [raised |-> TRUE, exc |-> e]

\* The argument of _calculate_ema: a list of numbers, or a single float.
PyList(s) == [list |-> TRUE, vals |-> s]
PyFloat(x) == [list |-> FALSE, num |-> x]

\* The argument `prices` of analyze_stock: None, or a list of closes.
PyNone == [none |-> TRUE, vals |-> <<>>]
Closes(s) == [none |-> FALSE, vals |-> s]

-----------------------------------------------------------------------------
(* nse_trader/technical_analysis.py                                        *)

RSI_PERIOD == 14
MACD_FAST == 12
MACD_SLOW == 26
MACD_SIGNAL == 9
BB_PERIOD == 20
BB_STD_DEV == 2
MOMENTUM_PERIOD == 14
MIN_PRICES == 30
RSI_OVERSOLD == 30
RSI_OVERBOUGHT == 70
MIN_VOTES == 2
HIGH_VOTES == 3

\* np.diff
Deltas(s) == Bind(s, LAMBDA v : AsList([i \in 1..(Len(v) - 1) |-> QSub(v[i + 1], v[i])]))
\* np.where(deltas > 0, deltas, 0) and np.where(deltas < 0, -deltas, 0)
Gains(ds) ==
    Bind(ds, LAMBDA v : AsList([i \in 1..Len(v) |-> IF v[i].n > 0 THEN v[i] ELSE R(0)]))
Losses(ds) ==
    Bind(ds, LAMBDA v : AsList([i \in 1..Len(v) |-> IF v[i].n < 0 THEN QNeg(v[i]) ELSE R(0)]))

\* avg = np.mean(xs[:period]), then
\* for i in range(period, len(xs)): avg = (avg * (period - 1) + xs[i]) / period
\* (i is the 0-based index of the code; xs[i + 1] is its element here).
SmoothedAverage(xs, period) ==
    Bind(xs, LAMBDA v :
        Loop(LAMBDA avg, i : QDiv(QAdd(QMul(avg, R(period - 1)), v[i + 1]), R(period)),
             QDiv(SeqSum(Slice(v, 0, period)), R(period)), period, Len(v)))

RsiOf(avg_gain, avg_loss) ==
    IF QIsZero(avg_loss) THEN R(100)
    ELSE Bind(QDiv(avg_gain, avg_loss), LAMBDA rs :
             QSub(R(100), QDiv(R(100), QAdd(R(1), rs))))

calculate_rsi(ps, period) ==
    IF Len(ps) < period + 1 THEN R(50)
    ELSE Bind(Deltas(Rats(ps)), LAMBDA deltas :
         Bind(Gains(deltas), LAMBDA gains :
         Bind(Losses(deltas), LAMBDA losses :
         Bind(SmoothedAverage(gains, period), LAMBDA avg_gain :
         Bind(SmoothedAverage(losses, period), LAMBDA avg_loss :
             RsiOf(avg_gain, avg_loss))))))

\* `ema = prices[0]` for the seed: the mutant of EmaLoop that starts from the
\* first value instead of the mean of the first `period` values.
EmaLoop_SeedFirst(xs, period) ==
    Bind(xs, LAMBDA v : Bind(Q(2, period + 1), LAMBDA multiplier :
        Loop(LAMBDA ema, i : QAdd(QMul(QSub(v[i + 1], ema), multiplier), ema),
             v[1], period, Len(v))))

\* ema = sum(prices[:period]) / period, then
\* for i in range(period, len(prices)): ema = (prices[i] - ema) * multiplier + ema
EmaLoop(xs, period) ==
    Bind(xs, LAMBDA v : Bind(Q(2, period + 1), LAMBDA multiplier :
        Loop(LAMBDA ema, i : QAdd(QMul(QSub(v[i + 1], ema), multiplier), ema),
             QDiv(SeqSum(Slice(v, 0, period)), R(period)), period, Len(v))))

\* `prices` is a list or, as calculate_macd passes its MACD line, one float:
\* a float is no list, so the first branch is skipped, and slicing it raises.
_calculate_ema(pv, period) ==
    IF pv.list /\ Len(pv.vals) < period
    THEN IF Len(pv.vals) = 0 THEN Raise("ZeroDivisionError")
         ELSE Ok(QDiv(SeqSum(pv.vals), R(Len(pv.vals))))
    ELSE IF ~pv.list THEN Raise("TypeError")
    ELSE Ok(EmaLoop(pv.vals, period))

MacdClass(macd_line, signal_line) ==
    IF QGt(macd_line, signal_line) THEN "buy"
    ELSE IF QLt(macd_line, signal_line) THEN "sell"
    ELSE "neutral"

\* The statements after the two EMAs: the MACD line, a float, goes to
\* _calculate_ema as its `prices`.
MacdFromEmas(ema_fast, ema_slow, signal) ==
    Bind(QSub(ema_fast, ema_slow), LAMBDA macd_line :
    Bind(_calculate_ema(PyFloat(macd_line), signal), LAMBDA sig :
        IF sig.raised THEN sig
        ELSE Ok([macd_line   |-> macd_line,
                 signal_line |-> sig.value,
                 histogram   |-> QSub(macd_line, sig.value),
                 signal      |-> MacdClass(macd_line, sig.value)])))

\* `len(prices) < slow` for the first test: the mutant of calculate_macd that
\* forgets the signal period.
calculate_macd_SlowOnly(ps, fast, slow, signal) ==
    IF Len(ps) < slow
    THEN Ok([macd_line |-> R(0), signal_line |-> R(0), histogram |-> R(0),
             signal |-> "neutral"])
    ELSE Bind(PyList(Rats(ps)), LAMBDA pv :
         Bind(_calculate_ema(pv, fast), LAMBDA ema_fast :
         Bind(_calculate_ema(pv, slow), LAMBDA ema_slow :
             IF ema_fast.raised THEN ema_fast
             ELSE IF ema_slow.raised THEN ema_slow
             ELSE MacdFromEmas(ema_fast.value, ema_slow.value, signal))))

calculate_macd(ps, fast, slow, signal) ==
    IF Len(ps) < slow + signal
    THEN Ok([macd_line |-> R(0), signal_line |-> R(0), histogram |-> R(0),
             signal |-> "neutral"])
    ELSE Bind(PyList(Rats(ps)), LAMBDA pv :
         Bind(_calculate_ema(pv, fast), LAMBDA ema_fast :
         Bind(_calculate_ema(pv, slow), LAMBDA ema_slow :
             IF ema_fast.raised THEN ema_fast
             ELSE IF ema_slow.raised THEN ema_slow
             ELSE MacdFromEmas(ema_fast.value, ema_slow.value, signal))))

\* np.std squared: the population variance, mean of squares minus squared mean.
PopVariance(xs) ==
    Bind(xs, LAMBDA v : Bind(QDiv(SeqSum(v), R(Len(v))), LAMBDA mean :
        QSub(QDiv(SeqSum(AsList([i \in 1..Len(v) |-> QMul(v[i], v[i])])), R(Len(v))),
             QMul(mean, mean))))

BollingerClass(current_price, upper_band, lower_band) ==
    IF QGtSurd(current_price, upper_band) THEN "sell"
    ELSE IF QLtSurd(current_price, lower_band) THEN "buy"
    ELSE "neutral"

\* upper_band and lower_band with their signs exchanged: the mutant of
\* BollingerBands.
BollingerBands_Swapped(window, current_price, period, std_dev) ==
    Bind(QDiv(SeqSum(window), R(period)), LAMBDA middle_band :
    Bind(PopVariance(window), LAMBDA var :
    Bind(Surd(middle_band, R(-std_dev), var), LAMBDA upper_band :
    Bind(Surd(middle_band, R(std_dev), var), LAMBDA lower_band :
        Ok([upper_band  |-> upper_band,
            middle_band |-> middle_band,
            lower_band  |-> lower_band,
            band_width  |-> Surd(R(0), QDiv(R(2 * std_dev), middle_band), var),
            signal      |-> BollingerClass(current_price, upper_band, lower_band)])))))

\* The branch taken with at least `period` closes.  Closes are prices, hence
\* positive: middle_band is never 0.
BollingerBands(window, current_price, period, std_dev) ==
    Bind(QDiv(SeqSum(window), R(period)), LAMBDA middle_band :
    Bind(PopVariance(window), LAMBDA var :
    Bind(Surd(middle_band, R(std_dev), var), LAMBDA upper_band :
    Bind(Surd(middle_band, R(-std_dev), var), LAMBDA lower_band :
        Ok([upper_band  |-> upper_band,
            middle_band |-> middle_band,
            lower_band  |-> lower_band,
            band_width  |-> Surd(R(0), QDiv(R(2 * std_dev), middle_band), var),
            signal      |-> BollingerClass(current_price, upper_band, lower_band)])))))

calculate_bollinger_bands(ps, period, std_dev) ==
    IF Len(ps) < period
    THEN IF Len(ps) = 0 THEN Raise("IndexError")
         ELSE Bind(R(ps[Len(ps)]), LAMBDA last :
                  Ok([upper_band  |-> Surd(QMul(last, Q(11, 10)), R(0), R(0)),
                      middle_band |-> last,
                      lower_band  |-> Surd(QMul(last, Q(9, 10)), R(0), R(0)),
                      band_width  |-> Surd(Q(2, 10), R(0), R(0)),
                      signal      |-> "neutral"]))
    ELSE Bind(Rats(LastN(ps, period)), LAMBDA window :
             BollingerBands(window, window[period], period, std_dev))

calculate_momentum(ps, period) ==
    IF Len(ps) <= period THEN R(0)
    ELSE QSub(R(ps[Len(ps)]), R(ps[Len(ps) - period]))

NeutralDefault ==
    [recommendation |-> "neutral",
     confidence     |-> "low",
     indicators     |-> [rsi |-> R(50), macd |-> "neutral",
                         bollinger |-> "neutral", momentum |-> R(0)]]

\* The votes of one indicator block: what it adds to buy_signals and to
\* sell_signals (an if / elif: at most one of the two).
RsiVotes(rsi) ==
    IF QLt(rsi, R(RSI_OVERSOLD)) THEN <<R(1), R(0)>>
    ELSE IF QGt(rsi, R(RSI_OVERBOUGHT)) THEN <<R(0), R(1)>>
    ELSE <<R(0), R(0)>>

ClassVotes(signal) ==
    IF signal = "buy" THEN <<R(1), R(0)>>
    ELSE IF signal = "sell" THEN <<R(0), R(1)>>
    ELSE <<R(0), R(0)>>

MomentumVotes(momentum) ==
    IF QSign(momentum) > 0 THEN <<Q(1, 2), R(0)>>
    ELSE IF QSign(momentum) < 0 THEN <<R(0), Q(1, 2)>>
    ELSE <<R(0), R(0)>>

\* buy_signals and sell_signals after the four voting blocks.
Tally(rsi, macd_signal, bollinger_signal, momentum) ==
    Bind(<<RsiVotes(rsi), ClassVotes(macd_signal), ClassVotes(bollinger_signal),
           MomentumVotes(momentum)>>, LAMBDA v :
        [buy_signals  |-> QAdd(QAdd(QAdd(v[1][1], v[2][1]), v[3][1]), v[4][1]),
         sell_signals |-> QAdd(QAdd(QAdd(v[1][2], v[2][2]), v[3][2]), v[4][2])])

\* The comparison without `>= 2`: the mutant of Recommend that has no
\* minimum-vote floor.
Recommend_NoFloor(buy_signals, sell_signals) ==
    IF QGt(buy_signals, sell_signals) THEN "buy"
    ELSE IF QGt(sell_signals, buy_signals) THEN "sell"
    ELSE "neutral"

Recommend(buy_signals, sell_signals) ==
    IF QGt(buy_signals, sell_signals) /\ QGe(buy_signals, R(MIN_VOTES)) THEN "buy"
    ELSE IF QGt(sell_signals, buy_signals) /\ QGe(sell_signals, R(MIN_VOTES)) THEN "sell"
    ELSE "neutral"

\* `signal_strength > 2` for 'medium': the mutant of Confidence that leaves
\* exactly two votes at 'low'.
Confidence_Above(buy_signals, sell_signals) ==
    Bind(QMax(buy_signals, sell_signals), LAMBDA signal_strength :
        IF QGe(signal_strength, R(HIGH_VOTES)) THEN "high"
        ELSE IF QGt(signal_strength, R(MIN_VOTES)) THEN "medium"
        ELSE "low")

Confidence(buy_signals, sell_signals) ==
    Bind(QMax(buy_signals, sell_signals), LAMBDA signal_strength :
        IF QGe(signal_strength, R(HIGH_VOTES)) THEN "high"
        ELSE IF QGe(signal_strength, R(MIN_VOTES)) THEN "medium"
        ELSE "low")

\* `if not prices` alone: the mutant of TooFewPrices that drops the length test.
TooFewPrices_NoMinimum(p) == p.none \/ Len(p.vals) = 0

\* if not prices or len(prices) < 30
TooFewPrices(p) == p.none \/ Len(p.vals) = 0 \/ Len(p.vals) < MIN_PRICES

\* The statements after the four indicator calls.
Verdict(rsi, macd, bollinger, momentum) ==
    Bind(Tally(rsi, macd.signal, bollinger.signal, momentum), LAMBDA t :
        Ok([recommendation |-> Recommend(t.buy_signals, t.sell_signals),
            confidence     |-> Confidence(t.buy_signals, t.sell_signals),
            indicators     |-> [rsi       |-> rsi,
                                macd      |-> macd.signal,
                                bollinger |-> bollinger.signal,
                                momentum  |-> momentum]]))

\* The four indicators are computed in the order rsi, macd, bollinger, momentum;
\* an exception raised by one of them leaves analyze_stock, which catches nothing.
analyze_stock(p) ==
    IF TooFewPrices(p)
    THEN Ok(NeutralDefault)
    ELSE Bind(calculate_rsi(p.vals, RSI_PERIOD), LAMBDA rsi :
         Bind(calculate_macd(p.vals, MACD_FAST, MACD_SLOW, MACD_SIGNAL), LAMBDA macd :
             IF macd.raised THEN macd
             ELSE Bind(calculate_bollinger_bands(p.vals, BB_PERIOD, BB_STD_DEV),
                       LAMBDA bollinger :
                  IF bollinger.raised THEN bollinger
                  ELSE Verdict(rsi, macd.value, bollinger.value,
                               calculate_momentum(p.vals, MOMENTUM_PERIOD)))))

-----------------------------------------------------------------------------
(* nse_trader/analysis.py: values.                                         *)
(*                                                                         *)
(* A mapping is a function from its keys to values.  A numeric value is a  *)
(* rational (k = "num"), NaN, +inf, None, or a + b * sqrt(v) (k = "surd"). *)

EmptyDict == <<>>
None == [k |-> "None"]
NaN == [k |-> "nan"]
Inf == [k |-> "inf"]

Has(m, key) == key \in DOMAIN m

\* x > y on floats: False when either is NaN.
NumGt(x, y) ==
    IF x.k = "nan" \/ y.k = "nan" THEN FALSE
    ELSE IF x.k = "inf" THEN y.k # "inf"
    ELSE IF y.k = "inf" THEN FALSE
    ELSE IF y.k = "surd" THEN QGtSurd(x, y)
    ELSE QGt(x, y)

NumLt(x, y) ==
    IF x.k = "nan" \/ y.k = "nan" THEN FALSE
    ELSE IF y.k = "inf" THEN x.k # "inf"
    ELSE IF x.k = "inf" THEN FALSE
    ELSE IF y.k = "surd" THEN QLtSurd(x, y)
    ELSE QLt(x, y)

\* Python's x > y and x < y: ordering None against anything raises TypeError.
PyGt(x, y) ==
    Bind(x, LAMBDA a : Bind(y, LAMBDA b :
        IF a.k = "None" \/ b.k = "None" THEN Raise("TypeError") ELSE Ok(NumGt(a, b))))
PyLt(x, y) ==
    Bind(x, LAMBDA a : Bind(y, LAMBDA b :
        IF a.k = "None" \/ b.k = "None" THEN Raise("TypeError") ELSE Ok(NumLt(a, b))))

\* f"{x:.1f}" of a finite x >= 0, as its number of tenths.
Tenths(x) == (20 * x.n + x.d) \div (2 * x.d)

-----------------------------------------------------------------------------
(* nse_trader/analysis.py: generate_signals                                *)

STRONG_LEVEL == 2

\* `strength > 2` for the first test: the mutant of _get_recommendation.
_get_recommendation_Above(strength) ==
    IF strength > STRONG_LEVEL THEN "STRONG BUY"
    ELSE IF strength = 1 THEN "BUY"
    ELSE IF strength = 0 THEN "HOLD"
    ELSE IF strength = -1 THEN "SELL"
    ELSE "STRONG SELL"

_get_recommendation(strength) ==
    IF strength >= STRONG_LEVEL THEN "STRONG BUY"
    ELSE IF strength = 1 THEN "BUY"
    ELSE IF strength = 0 THEN "HOLD"
    ELSE IF strength = -1 THEN "SELL"
    ELSE "STRONG SELL"

\* strength += 2 * v: the mutant of Vote that weighs every vote twice.
Vote_Twice(st, v, reason) ==
    [strength |-> st.strength + 2 * v, reasons |-> Append(st.reasons, reason)]

\* The vote without its reasons.append: the mutant of Vote.
Vote_NoReason(st, v, reason) ==
    [strength |-> st.strength + v, reasons |-> st.reasons]

\* strength += v; reasons.append(reason)
Vote(st, v, reason) ==
    [strength |-> st.strength + v, reasons |-> Append(st.reasons, reason)]

\* Each block of the try body takes the (strength, reasons) reached so far and
\* returns the next, or the exception a comparison raised.
CrossoverBlock(a, st) ==
    IF Has(a, "sma_50") /\ Has(a, "sma_200")
    THEN Bind(PyGt(a["sma_50"], a["sma_200"]), LAMBDA c :
             IF c.raised THEN c
             ELSE IF c.value
             THEN Ok(Vote(st, 1, <<"SMA 50 above SMA 200 (Golden Cross)">>))
             ELSE Ok(Vote(st, -1, <<"SMA 50 below SMA 200 (Death Cross)">>)))
    ELSE Ok(st)

\* The elif of a block: taken only when the if was not.
RsiOverbought(a, st) ==
    Bind(PyGt(a["rsi"], R(RSI_OVERBOUGHT)), LAMBDA hi :
        IF hi.raised THEN hi
        ELSE IF hi.value
        THEN Ok(Vote(st, -1, <<"RSI overbought at", Tenths(a["rsi"])>>))
        ELSE Ok(st))

RsiBlock(a, st) ==
    IF Has(a, "rsi")
    THEN Bind(PyLt(a["rsi"], R(RSI_OVERSOLD)), LAMBDA lo :
             IF lo.raised THEN lo
             ELSE IF lo.value
             THEN Ok(Vote(st, 1, <<"RSI oversold at", Tenths(a["rsi"])>>))
             ELSE RsiOverbought(a, st))
    ELSE Ok(st)

MacdBlock(a, st) ==
    IF Has(a, "macd") /\ Has(a, "macd_signal")
    THEN Bind(PyGt(a["macd"], a["macd_signal"]), LAMBDA c :
             IF c.raised THEN c
             ELSE IF c.value
             THEN Ok(Vote(st, 1, <<"MACD above signal line">>))
             ELSE Ok(Vote(st, -1, <<"MACD below signal line">>)))
    ELSE Ok(st)

\* analysis.get('close', [])
CloseList(a) == IF Has(a, "close") THEN a["close"] ELSE <<>>

AboveUpperBand(a, close, st) ==
    Bind(PyGt(close, a["bb_upper"]), LAMBDA hi :
        IF hi.raised THEN hi
        ELSE IF hi.value
        THEN Ok(Vote(st, -1, <<"Price above upper Bollinger Band">>))
        ELSE Ok(st))

BollingerBlock(a, st) ==
    IF Has(a, "bb_lower") /\ Has(a, "bb_upper") /\ Len(CloseList(a)) > 0
    THEN Bind(CloseList(a)[Len(CloseList(a))], LAMBDA close :
         Bind(PyLt(close, a["bb_lower"]), LAMBDA lo :
             IF lo.raised THEN lo
             ELSE IF lo.value
             THEN Ok(Vote(st, 1, <<"Price below lower Bollinger Band">>))
             ELSE AboveUpperBand(a, close, st)))
    ELSE Ok(st)

\* One block after the outcome of those before it: an exception skips it.
Then(r, Block(_)) == Bind(r, LAMBDA s : IF s.raised THEN s ELSE Block(s.value))

\* The body of the try statement.
SignalsBody(a) ==
    Then(Then(Then(Then(Then(Ok([strength |-> 0, reasons |-> <<>>]),
                             LAMBDA st : CrossoverBlock(a, st)),
                        LAMBDA st : RsiBlock(a, st)),
                   LAMBDA st : MacdBlock(a, st)),
              LAMBDA st : BollingerBlock(a, st)),
         LAMBDA st : Ok([recommendation |-> _get_recommendation(st.strength),
                         strength       |-> st.strength,
                         reasons        |-> st.reasons]))

\* except Exception as e: the HOLD default, with the exception as its reason.
SignalsExcept(r) ==
    Bind(r, LAMBDA s :
        IF s.raised
        THEN Ok([recommendation |-> "HOLD", strength |-> 0,
                 reasons |-> << <<"Error:", s.exc>> >>])
        ELSE s)

\* The try statement without its handler: the mutant of SignalsTry.
SignalsTry_NoHandler(a) == SignalsBody(a)

SignalsTry(a) == SignalsExcept(SignalsBody(a))

\* Without the test `if not analysis`: the mutant of generate_signals.
generate_signals_NoEmptyTest(a) == SignalsTry(a)

generate_signals(a) ==
    IF DOMAIN a = {}
    THEN Ok([recommendation |-> "HOLD", strength |-> 0,
             reasons |-> << <<"Error generating signals">> >>])
    ELSE SignalsTry(a)

-----------------------------------------------------------------------------
(* nse_trader/analysis.py: analyze_stock over the Close column of a        *)
(* DataFrame, a sequence of rationals and NaN (a missing value).           *)

SMA_SHORT == 50
SMA_LONG == 200
FULL_ROWS == 200
MIN_ROWS == 14
MACD_MIN_ROWS == 35

IsNaN(x) == x.k = "nan"
HasNaN(xs) == Bind(xs, LAMBDA v : \E i \in 1..Len(v) : IsNaN(v[i]))

\* fillna(method='ffill'): a missing value takes the last value before it.
FFill(xs) ==
    Bind(xs, LAMBDA v :
        Loop(LAMBDA acc, i : Append(acc, IF IsNaN(v[i + 1]) /\ i > 0 THEN acc[i]
                                         ELSE v[i + 1]),
             <<>>, 0, Len(v)))

\* fillna(method='bfill'): a missing value takes the next value after it
\* (j rows from the end are done; row Len - j is the next).
BFill(xs) ==
    Bind(xs, LAMBDA v :
        Loop(LAMBDA acc, j : <<IF IsNaN(v[Len(v) - j]) /\ j > 0 THEN acc[1]
                               ELSE v[Len(v) - j]>> \o acc,
             <<>>, 0, Len(v)))

\* .rolling(window).mean().iloc[-1] for len >= window: NaN if the window holds one.
RollingMeanLast(xs, window) ==
    Bind(LastN(xs, window), LAMBDA w :
        IF HasNaN(w) THEN NaN ELSE QDiv(SeqSum(w), R(window)))

\* The sum of the squared deviations of w from mean.
SquaredDeviations(w, mean) ==
    SeqSum(AsList([i \in 1..Len(w) |-> Bind(QSub(w[i], mean), LAMBDA dev : QMul(dev, dev))]))

\* .rolling(window).std().iloc[-1] squared: the sample variance (ddof = 1).
RollingVarLast(xs, window) ==
    Bind(LastN(xs, window), LAMBDA w :
        IF HasNaN(w) THEN NaN
        ELSE Bind(QDiv(SeqSum(w), R(window)), LAMBDA mean :
                 QDiv(SquaredDeviations(w, mean), R(window - 1))))

\* .ewm(span=span, adjust=False).mean(): y[0] = x[0],
\* y[t] = (1 - alpha) * y[t-1] + alpha * x[t], alpha = 2 / (span + 1).
\* After fillna a series holds a NaN only if it holds nothing else.
Ewm(xs, span) ==
    Bind(xs, LAMBDA v :
        IF HasNaN(v) THEN AsList([i \in 1..Len(v) |-> NaN])
        ELSE Bind(Q(2, span + 1), LAMBDA alpha :
             Bind(QSub(R(1), alpha), LAMBDA keep :
                 Loop(LAMBDA acc, i :
                          Append(acc, QAdd(QMul(keep, acc[i]), QMul(alpha, v[i + 1]))),
                      <<v[1]>>, 1, Len(v)))))

\* `len(df) <= period` for the test: the mutant of _calc_sma that has no value
\* for a frame of exactly `period` rows.
_calc_sma_Strict(df, period) ==
    IF Len(df) <= period THEN None ELSE RollingMeanLast(df, period)

_calc_sma(df, period) ==
    IF Len(df) < period THEN None ELSE RollingMeanLast(df, period)

_calc_ema(df, period) ==
    IF Len(df) < period THEN None
    ELSE Bind(Ewm(df, period), LAMBDA ema : ema[Len(ema)])

\* avg_gain / avg_loss on floats: x / 0 is +inf for x > 0 and NaN for x = 0.
GainOverLoss(avg_gain, avg_loss) ==
    IF QIsZero(avg_loss) THEN (IF QIsZero(avg_gain) THEN NaN ELSE Inf)
    ELSE QDiv(avg_gain, avg_loss)

\* 100 - (100 / (1 + rs))
RsiFromRs(rs) ==
    IF rs.k = "nan" THEN NaN
    ELSE IF rs.k = "inf" THEN R(100)
    ELSE QSub(R(100), QDiv(R(100), QAdd(R(1), rs)))

\* Close.diff(): NaN in the first row and wherever a close is NaN.
Diff(df) ==
    AsList([i \in 1..Len(df) |->
               IF i = 1 \/ IsNaN(df[i]) \/ IsNaN(df[i - 1]) THEN NaN
               ELSE QSub(df[i], df[i - 1])])

\* delta.where(delta > 0, 0) and -delta.where(delta < 0, 0): a NaN delta is
\* replaced by 0 in both.
GainOf(delta) ==
    AsList([i \in 1..Len(delta) |->
               IF ~IsNaN(delta[i]) /\ delta[i].n > 0 THEN delta[i] ELSE R(0)])
LossOf(delta) ==
    AsList([i \in 1..Len(delta) |->
               IF ~IsNaN(delta[i]) /\ delta[i].n < 0 THEN QNeg(delta[i]) ELSE R(0)])

_calc_rsi(df, period) ==
    IF Len(df) < period + 1 THEN None
    ELSE Bind(Diff(df), LAMBDA delta :
         Bind(RollingMeanLast(GainOf(delta), period), LAMBDA avg_gain :
         Bind(RollingMeanLast(LossOf(delta), period), LAMBDA avg_loss :
         Bind(GainOverLoss(avg_gain, avg_loss), LAMBDA rs : RsiFromRs(rs)))))

\* The last row of macd_line, of signal_line and of their difference.
MacdLast(macd_line, signal_line) ==
    [macd   |-> macd_line[Len(macd_line)],
     signal |-> signal_line[Len(signal_line)],
     hist   |-> QSub(macd_line[Len(macd_line)], signal_line[Len(signal_line)])]

_calc_macd(df, fast, slow, signal) ==
    IF Len(df) < slow + signal
    THEN [macd |-> None, signal |-> None, hist |-> None]
    ELSE IF HasNaN(df) THEN [macd |-> NaN, signal |-> NaN, hist |-> NaN]
    ELSE Bind(Ewm(df, fast), LAMBDA ema_fast :
         Bind(Ewm(df, slow), LAMBDA ema_slow :
         Bind(AsList([i \in 1..Len(df) |-> QSub(ema_fast[i], ema_slow[i])]),
              LAMBDA macd_line :
         Bind(Ewm(macd_line, signal), LAMBDA signal_line :
             MacdLast(macd_line, signal_line)))))

_calc_bollinger_bands(df, period, std_dev) ==
    IF Len(df) < period
    THEN [upper |-> None, middle |-> None, lower |-> None]
    ELSE Bind(RollingMeanLast(df, period), LAMBDA middle_band :
             IF IsNaN(middle_band) THEN [upper |-> NaN, middle |-> NaN, lower |-> NaN]
             ELSE Bind(RollingVarLast(df, period), LAMBDA var :
                      [upper  |-> Surd(middle_band, R(std_dev), var),
                       middle |-> middle_band,
                       lower  |-> Surd(middle_band, R(-std_dev), var)]))

\* The result dictionary before its three trend indicators.
Indicators(df) ==
    Bind(_calc_macd(df, MACD_FAST, MACD_SLOW, MACD_SIGNAL), LAMBDA macd_vals :
    Bind(_calc_bollinger_bands(df, BB_PERIOD, BB_STD_DEV), LAMBDA bb :
        [sma_50      |-> _calc_sma(df, SMA_SHORT),
         sma_200     |-> _calc_sma(df, SMA_LONG),
         ema_50      |-> _calc_ema(df, SMA_SHORT),
         ema_200     |-> _calc_ema(df, SMA_LONG),
         rsi         |-> _calc_rsi(df, RSI_PERIOD),
         macd        |-> macd_vals.macd,
         macd_signal |-> macd_vals.signal,
         macd_hist   |-> macd_vals.hist,
         bb_upper    |-> bb.upper,
         bb_middle   |-> bb.middle,
         bb_lower    |-> bb.lower]))

\* result['is_uptrend'], ['is_overbought'], ['is_oversold']: three comparisons
\* outside the helpers' own handlers; a None operand raises.
TrendIndicators(result) ==
    Bind(PyGt(result.sma_50, result.sma_200), LAMBDA up :
    Bind(PyGt(result.rsi, R(RSI_OVERBOUGHT)), LAMBDA over :
    Bind(PyLt(result.rsi, R(RSI_OVERSOLD)), LAMBDA under :
        IF up.raised THEN up
        ELSE IF over.raised THEN over
        ELSE IF under.raised THEN under
        ELSE Ok([sma_50        |-> result.sma_50,
                 sma_200       |-> result.sma_200,
                 ema_50        |-> result.ema_50,
                 ema_200       |-> result.ema_200,
                 rsi           |-> result.rsi,
                 macd          |-> result.macd,
                 macd_signal   |-> result.macd_signal,
                 macd_hist     |-> result.macd_hist,
                 bb_upper      |-> result.bb_upper,
                 bb_middle     |-> result.bb_middle,
                 bb_lower      |-> result.bb_lower,
                 is_uptrend    |-> up.value,
                 is_overbought |-> over.value,
                 is_oversold   |-> under.value]))))

\* fillna(method='ffill') alone: the mutant of AnalyzeBody that does not fill
\* backward.
AnalyzeBody_NoBackFill(d) ==
    Bind(FFill(d), LAMBDA df :
        IF Len(df) < FULL_ROWS /\ Len(df) < MIN_ROWS THEN Ok(EmptyDict)
        ELSE Bind(Indicators(df), LAMBDA result : TrendIndicators(result)))

\* The body of the try statement.
AnalyzeBody(d) ==
    Bind(BFill(FFill(d)), LAMBDA df :
        IF Len(df) < FULL_ROWS /\ Len(df) < MIN_ROWS THEN Ok(EmptyDict)
        ELSE Bind(Indicators(df), LAMBDA result : TrendIndicators(result)))

\* except Exception: return {}
AnalyzeExcept(r) == Bind(r, LAMBDA s : IF s.raised THEN Ok(EmptyDict) ELSE s)

AnalyzeTry(d) == AnalyzeExcept(AnalyzeBody(d))

\* analysis.TechnicalAnalyzer.analyze_stock; data.empty is len(data) = 0 here.
report_analyze_stock(d) ==
    IF Len(d) = 0 THEN Ok(EmptyDict) ELSE AnalyzeTry(d)

-----------------------------------------------------------------------------
(* Inputs of the closes API: a flat run at Base followed by at most        *)
(* MaxTail closes within MaxDelta of it, of every length around the        *)
(* thresholds of the code (0, 1, and MIN_PRICES - 1 up to MaxOver past     *)
(* MACD_SLOW + MACD_SIGNAL).                                               *)

Base == 10
MaxDelta == 1
MaxTail == 2
MaxOver == 1

CloseLens == {0, 1} \cup ((MIN_PRICES - 1)..(MACD_SLOW + MACD_SIGNAL + MaxOver))

\* The closes of a tail: the flat close, and MaxDelta below and above it.
TailCloses == {Base - MaxDelta, Base, Base + MaxDelta}

TailsOf(t) == [1..t -> TailCloses]

CloseLists ==
    UNION { { Flat(Base, n - Min(n, MaxTail)) \o tl : tl \in TailsOf(Min(n, MaxTail)) }
            : n \in CloseLens }

PriceInputs == {PyNone} \cup {Closes(s) : s \in CloseLists}

\* (fast, slow, signal) of a calculate_macd call: the defaults and two small ones.
MacdParams == {<<MACD_FAST, MACD_SLOW, MACD_SIGNAL>>, <<1, 2, 1>>, <<2, 3, 2>>}

NoRet == Ok("none")
NoPrices == PyNone

Init ==
    /\ prices \in PriceInputs
    /\ data = <<>>
    /\ analysis = EmptyDict
    /\ call = "none"
    /\ ret = NoRet
    /\ position = None
    /\ stack = <<>>
    /\ bt = None

CallAnalyzeStock ==
    /\ call = "none"
    /\ call' = "analyze_stock"
    /\ ret' = analyze_stock(prices)
    /\ UNCHANGED <<prices, data, analysis, position, stack, bt>>

CallCalculateMacd ==
    /\ call = "none"
    /\ ~prices.none
    /\ \E pr \in MacdParams :
         /\ call' = "calculate_macd"
         /\ ret' = Bind(calculate_macd(prices.vals, pr[1], pr[2], pr[3]), LAMBDA out :
                       [raised |-> out.raised, params |-> pr, out |-> out])
    /\ UNCHANGED <<prices, data, analysis, position, stack, bt>>

\* A period that no list of CloseLists reaches: the list is too short for it.
LongPeriod == MACD_SLOW + MACD_SIGNAL + MaxOver + 1

\* period of a calculate_rsi call: the default, a small and a long one.
RsiPeriods == {RSI_PERIOD, 2, LongPeriod}

CallCalculateRsi ==
    /\ call = "none"
    /\ ~prices.none
    /\ \E period \in RsiPeriods :
         /\ call' = "calculate_rsi"
         /\ ret' = [raised |-> FALSE, params |-> <<period>>,
                    out |-> Ok(calculate_rsi(prices.vals, period))]
    /\ UNCHANGED <<prices, data, analysis, position, stack, bt>>

\* (period, std_dev) of a calculate_bollinger_bands call: the defaults, a
\* multiplier of 0, small periods and a long one.
BollingerParams ==
    {<<BB_PERIOD, BB_STD_DEV>>, <<BB_PERIOD, 0>>, <<2, 1>>, <<5, 3>>, <<LongPeriod, BB_STD_DEV>>}

CallCalculateBollingerBands ==
    /\ call = "none"
    /\ ~prices.none
    /\ \E pr \in BollingerParams :
         /\ call' = "calculate_bollinger_bands"
         /\ ret' = Bind(calculate_bollinger_bands(prices.vals, pr[1], pr[2]), LAMBDA out :
                       [raised |-> out.raised, params |-> pr, out |-> out])
    /\ UNCHANGED <<prices, data, analysis, position, stack, bt>>

\* period of a calculate_momentum call: the default, a small and a long one.
MomentumPeriods == {MOMENTUM_PERIOD, 1, LongPeriod}

CallCalculateMomentum ==
    /\ call = "none"
    /\ ~prices.none
    /\ \E period \in MomentumPeriods :
         /\ call' = "calculate_momentum"
         /\ ret' = [raised |-> FALSE, params |-> <<period>>,
                    out |-> Ok(calculate_momentum(prices.vals, period))]
    /\ UNCHANGED <<prices, data, analysis, position, stack, bt>>

\* period of a _calculate_ema call on the list of closes: those of the MACD,
\* two small ones, the shortest length calculate_macd accepts and a long one.
EmaPeriods == {MACD_FAST, MACD_SLOW, 1, 3, MACD_SLOW + MACD_SIGNAL, LongPeriod}

CallCalculateEma ==
    /\ call = "none"
    /\ ~prices.none
    /\ \E period \in EmaPeriods :
         /\ call' = "_calculate_ema"
         /\ ret' = Bind(_calculate_ema(PyList(Rats(prices.vals)), period), LAMBDA out :
                       [raised |-> out.raised, params |-> <<period>>, out |-> out])
    /\ UNCHANGED <<prices, data, analysis, position, stack, bt>>

Next ==
    \/ CallAnalyzeStock
    \/ CallCalculateMacd
    \/ CallCalculateRsi
    \/ CallCalculateBollingerBands
    \/ CallCalculateMomentum
    \/ CallCalculateEma

Spec == Init /\ [][Next]_vars

-----------------------------------------------------------------------------
(* Inputs of the report API.                                               *)
(*                                                                         *)
(* A Close column: a flat run at Base followed by at most BarTail closes   *)
(* within MaxDelta of it, of every length around the thresholds of the     *)
(* code, with one block of GapLen missing rows at its head, from row       *)
(* GapStart, at its tail, everywhere, or nowhere.                          *)
(* A mapping for generate_signals: each key absent, None or a number.      *)

BarTail == 1
MaxExtraRows == 1
GapLen == 2
GapStart == 11
MaxIndicator == 1

BarLens ==
    {0, MIN_ROWS - 1, MIN_ROWS, BB_PERIOD, MACD_MIN_ROWS, SMA_SHORT, FULL_ROWS - 1}
    \cup (FULL_ROWS..(FULL_ROWS + MaxExtraRows))

BarLists ==
    UNION { { Rats(Flat(Base, n - Min(n, BarTail)) \o tl) :
                  tl \in [1..Min(n, BarTail) -> TailCloses] }
            : n \in BarLens }

Gaps == {"none", "head", "middle", "tail", "all"}

Missing(n, gap) ==
    CASE gap = "none"   -> {}
      [] gap = "head"   -> 1..Min(n, GapLen)
      [] gap = "middle" -> GapStart..Min(n, GapStart + GapLen - 1)
      [] gap = "tail"   -> (n - Min(n, GapLen) + 1)..n
      [] gap = "all"    -> 1..n

WithGap(xs, gap) ==
    Bind(Missing(Len(xs), gap), LAMBDA missing :
        AsList([i \in 1..Len(xs) |-> IF i \in missing THEN NaN ELSE xs[i]]))

DataInputs == { WithGap(xs, gap) : xs \in BarLists, gap \in Gaps }

Absent == [k |-> "absent"]
Levels == {R(i) : i \in 0..MaxIndicator}
RsiLevels == {R(RSI_OVERSOLD - 1), R(RSI_OVERSOLD), R(RSI_OVERBOUGHT), R(RSI_OVERBOUGHT + 1)}
CloseOptions ==
    {Absent, [k |-> "list", vals |-> <<>>]}
    \cup {[k |-> "list", vals |-> <<R(i)>>] : i \in (-1)..(MaxIndicator + 1)}

MappingOf(o) ==
    [key \in {x \in DOMAIN o : o[x].k # "absent"} |->
        IF key = "close" THEN o[key].vals ELSE o[key]]

MappingInputs ==
    { MappingOf([sma_50 |-> s50, sma_200 |-> s200, rsi |-> rsi, macd |-> m,
                 macd_signal |-> ms, bb_lower |-> bl, bb_upper |-> bu, close |-> cl]) :
        s50  \in {Absent, None, NaN} \cup Levels,
        s200 \in {Absent, None, R(0)},
        rsi  \in {Absent, None, NaN} \cup RsiLevels,
        m    \in {Absent, None} \cup Levels,
        ms   \in {Absent, None, R(0)},
        bl   \in {Absent, None, R(0)},
        bu   \in {Absent, None, R(MaxIndicator)},
        cl   \in CloseOptions }

\* Either a DataFrame to analyse, or a mapping handed to generate_signals.
InitReport ==
    /\ prices = NoPrices
    /\ \/ data \in DataInputs /\ analysis = EmptyDict
       \/ data = <<>> /\ analysis \in MappingInputs
    /\ call = "none"
    /\ ret = NoRet
    /\ position = None
    /\ stack = <<>>
    /\ bt = None

CallReportAnalyzeStock ==
    /\ call = "none"
    /\ analysis = EmptyDict
    /\ call' = "report_analyze_stock"
    /\ ret' = report_analyze_stock(data)
    /\ analysis' = IF ret'.raised THEN analysis ELSE ret'.value
    /\ UNCHANGED <<prices, data, position, stack, bt>>

\* generate_signals on a mapping given by the caller.
CallGenerateSignals ==
    /\ call = "none"
    /\ data = <<>>
    /\ call' = "generate_signals"
    /\ ret' = generate_signals(analysis)
    /\ UNCHANGED <<prices, data, analysis, position, stack, bt>>

\* generate_signals on the mapping analyze_stock returned: the report.
CallGenerateSignalsOnAnalysis ==
    /\ call = "report_analyze_stock"
    /\ ~ret.raised
    /\ call' = "report"
    /\ ret' = generate_signals(analysis)
    /\ UNCHANGED <<prices, data, analysis, position, stack, bt>>

\* period of a _calc_sma call on the DataFrame: those of analyze_stock and
\* two small ones.
SmaPeriods == {SMA_SHORT, SMA_LONG, 2, MIN_ROWS}

\* _calc_sma on the DataFrame as given.
CallCalcSma ==
    /\ call = "none"
    /\ analysis = EmptyDict
    /\ \E period \in SmaPeriods :
         /\ call' = "_calc_sma"
         /\ ret' = [raised |-> FALSE, params |-> <<period>>,
                    out |-> Ok(_calc_sma(data, period))]
    /\ UNCHANGED <<prices, data, analysis, position, stack, bt>>

\* _calc_bollinger_bands on the DataFrame as given.
CallCalcBollingerBands ==
    /\ call = "none"
    /\ analysis = EmptyDict
    /\ \E pr \in BollingerParams :
         /\ call' = "_calc_bollinger_bands"
         /\ ret' = [raised |-> FALSE, params |-> pr,
                    out |-> Ok(_calc_bollinger_bands(data, pr[1], pr[2]))]
    /\ UNCHANGED <<prices, data, analysis, position, stack, bt>>

NextReport ==
    \/ CallReportAnalyzeStock
    \/ CallGenerateSignals
    \/ CallGenerateSignalsOnAnalysis
    \/ CallCalcSma
    \/ CallCalcBollingerBands

SpecReport == InitReport /\ [][NextReport]_vars

-----------------------------------------------------------------------------
(* Both analyzers together: a call of either, on its own input.            *)

InitAll == Init \/ InitReport

NextAll == Next \/ NextReport

SpecAll == InitAll /\ [][NextAll]_vars

-----------------------------------------------------------------------------
(* Claims about technical_analysis.TechnicalAnalyzer (specification Spec). *)

AnalyzeStockDone == call = "analyze_stock"
EnoughCloses == ~prices.none /\ Len(prices.vals) >= 30

\* Twice the votes an indicator block casts for one side, from the indicators
\* analyze_stock returns.
BuyVotes2(ind) ==
      (IF QLt(ind.rsi, R(30)) THEN 2 ELSE 0)
    + (IF ind.macd = "buy" THEN 2 ELSE 0)
    + (IF ind.bollinger = "buy" THEN 2 ELSE 0)
    + (IF ind.momentum.n > 0 THEN 1 ELSE 0)

SellVotes2(ind) ==
      (IF QGt(ind.rsi, R(70)) THEN 2 ELSE 0)
    + (IF ind.macd = "sell" THEN 2 ELSE 0)
    + (IF ind.bollinger = "sell" THEN 2 ELSE 0)
    + (IF ind.momentum.n < 0 THEN 1 ELSE 0)

VotedRecommendation(v) ==
    LET b == BuyVotes2(v.indicators)
        s == SellVotes2(v.indicators)
    IN  /\ (v.recommendation = "buy") <=> (b > s /\ b >= 4)
        /\ (v.recommendation = "sell") <=> (s > b /\ s >= 4)
        /\ (v.recommendation = "neutral") <=> ~(b > s /\ b >= 4) /\ ~(s > b /\ s >= 4)

\* C1: for every list of at least 30 closes analyze_stock returns, and its
\* recommendation is 'buy' iff buy_votes > sell_votes and buy_votes >= 2, 'sell'
\* iff sell_votes > buy_votes and sell_votes >= 2, and 'neutral' otherwise, the
\* votes being RSI (<30 buy, >70 sell: 1), MACD (1), Bollinger (1), momentum (0.5).
C1_VoteTally ==
    (AnalyzeStockDone /\ EnoughCloses) =>
        (~ret.raised /\ VotedRecommendation(ret.value))

\* C2: analyze_stock returns a result with recommendation, confidence and
\* indicators for every input, and never ends in a raised exception.
C2_AnalyzeStockNeverRaises ==
    AnalyzeStockDone =>
        (~ret.raised /\
         DOMAIN ret.value = {"recommendation", "confidence", "indicators"})

\* The MACD line after each of the first t closes, t = slow .. len(prices).
MacdLineSeries(ps, fast, slow) ==
    [j \in 1..(Len(ps) - slow + 1) |->
        LET prefix == PyList(Rats(SubSeq(ps, 1, slow + j - 1)))
        IN  QSub(_calculate_ema(prefix, fast).value, _calculate_ema(prefix, slow).value)]

MacdAsSpecified(ps, fast, slow, signal, m) ==
    LET all  == PyList(Rats(ps))
        line == QSub(_calculate_ema(all, fast).value, _calculate_ema(all, slow).value)
        sig  == _calculate_ema(PyList(MacdLineSeries(ps, fast, slow)), signal).value
    IN  /\ m.macd_line = line
        /\ m.signal_line = sig
        /\ m.histogram = QSub(line, sig)

\* C3: for every price list of length >= slow + signal, calculate_macd returns
\* macd_line = EMA(prices, fast) - EMA(prices, slow), signal_line = the EMA of
\* period `signal` over the series of MACD-line values, and histogram =
\* macd_line - signal_line.
C3_MacdLines ==
    (call = "calculate_macd" /\ Len(prices.vals) >= ret.params[2] + ret.params[3]) =>
        (~ret.raised /\
         MacdAsSpecified(prices.vals, ret.params[1], ret.params[2], ret.params[3],
                         ret.out.value))

VotedConfidence(v) ==
    LET b == BuyVotes2(v.indicators)
        s == SellVotes2(v.indicators)
        m == IF b > s THEN b ELSE s
    IN  /\ (v.confidence = "high") <=> (m >= 6)
        /\ (v.confidence = "medium") <=> (4 <= m /\ m < 6)
        /\ (v.confidence = "low") <=> (m < 4)

\* C6: for every list of at least 30 closes analyze_stock returns confidence
\* 'high' iff max(buy_votes, sell_votes) >= 3, 'medium' iff it is >= 2 and < 3,
\* and 'low' otherwise.
C6_Confidence ==
    (AnalyzeStockDone /\ EnoughCloses) =>
        (~ret.raised /\ VotedConfidence(ret.value))

\* C7: for a missing or empty price list and for every list of fewer than 30
\* closes analyze_stock returns the neutral default: recommendation 'neutral',
\* confidence 'low', rsi 50, macd 'neutral', bollinger 'neutral', momentum 0.
C7_NeutralDefault ==
    (AnalyzeStockDone /\ (prices.none \/ Len(prices.vals) < 30)) =>
        /\ ~ret.raised
        /\ ret.value.recommendation = "neutral"
        /\ ret.value.confidence = "low"
        /\ ret.value.indicators.rsi = R(50)
        /\ ret.value.indicators.macd = "neutral"
        /\ ret.value.indicators.bollinger = "neutral"
        /\ ret.value.indicators.momentum = R(0)

\* A list of 29 closes that ends in a fall was answered with the default.
C7_Witness ==
    /\ AnalyzeStockDone
    /\ ~prices.none
    /\ Len(prices.vals) = 29
    /\ prices.vals[29] < prices.vals[28]
    /\ ~ret.raised
    /\ ret.value.recommendation = "neutral"
    /\ ret.value.indicators.rsi = R(50)

\* The band s equals the number x.
BandIs(s, x) == ~QLtSurd(x, s) /\ ~QGtSurd(x, s)

LastClose == R(prices.vals[Len(prices.vals)])

\* C14: on insufficient history each indicator returns its sentinel:
\* calculate_rsi 50 for len < period + 1; calculate_macd zeros and 'neutral'
\* for len < slow + signal; calculate_bollinger_bands the last close, 1.1 and
\* 0.9 times it, band_width 0.2 and 'neutral' for 1 <= len < period;
\* calculate_momentum 0 for len < period + 1.
C14_Sentinels ==
    /\ (call = "calculate_rsi" /\ Len(prices.vals) < ret.params[1] + 1) =>
           ret.out = Ok(R(50))
    /\ (call = "calculate_macd" /\ Len(prices.vals) < ret.params[2] + ret.params[3]) =>
           ret.out = Ok([macd_line |-> R(0), signal_line |-> R(0), histogram |-> R(0),
                         signal |-> "neutral"])
    /\ (call = "calculate_bollinger_bands" /\ Len(prices.vals) >= 1
            /\ Len(prices.vals) < ret.params[1]) =>
           /\ ~ret.raised
           /\ ret.out.value.middle_band = LastClose
           /\ BandIs(ret.out.value.upper_band, QMul(Q(11, 10), LastClose))
           /\ BandIs(ret.out.value.lower_band, QMul(Q(9, 10), LastClose))
           /\ BandIs(ret.out.value.band_width, Q(2, 10))
           /\ ret.out.value.signal = "neutral"
    /\ (call = "calculate_momentum" /\ Len(prices.vals) < ret.params[1] + 1) =>
           ret.out = Ok(R(0))

\* The fallback bands of a list of at least 29 closes that ends off its run.
C14_Witness ==
    /\ call = "calculate_bollinger_bands"
    /\ Len(prices.vals) >= MIN_PRICES - 1
    /\ Len(prices.vals) < ret.params[1]
    /\ prices.vals[Len(prices.vals)] # prices.vals[1]
    /\ ~ret.raised
    /\ ret.out.value.signal = "neutral"

ZeroMacd(m) == m.macd_line = R(0) /\ m.signal_line = R(0) /\ m.histogram = R(0)

\* C15: with sufficient data calculate_macd has no tie state: it classifies
\* 'buy' if macd_line > signal_line and 'sell' in every other case; 'neutral'
\* is returned only on insufficient data, where the three values are 0.
C15_MacdNoTie ==
    (call = "calculate_macd") =>
        /\ ~ret.raised
        /\ (Len(prices.vals) >= ret.params[2] + ret.params[3]) =>
               ret.out.value.signal =
                   IF QGt(ret.out.value.macd_line, ret.out.value.signal_line)
                   THEN "buy" ELSE "sell"
        /\ (ret.out.value.signal = "neutral") =>
               /\ Len(prices.vals) < ret.params[2] + ret.params[3]
               /\ ZeroMacd(ret.out.value)

\* The arithmetic mean of the first n elements of xs.
MeanOfFirst(xs, n) == QDiv(SeqSum(SubSeq(xs, 1, n)), R(n))

\* The EMA of the first n >= period elements of xs: the mean of the first
\* `period` of them, then ema = (x - ema) * (2 / (period + 1)) + ema for each
\* later element in order.
RECURSIVE EmaUpTo(_, _, _)
EmaUpTo(xs, period, n) ==
    IF n <= period THEN MeanOfFirst(xs, period)
    ELSE Bind(EmaUpTo(xs, period, n - 1), LAMBDA ema :
             QAdd(QMul(QSub(xs[n], ema), Q(2, period + 1)), ema))

EmaAsSpecified(xs, period) == Bind(Rats(xs), LAMBDA v : EmaUpTo(v, period, Len(v)))

\* C17: for every price sequence of length >= period, _calculate_ema returns
\* the mean of the first `period` values carried through
\* ema = (price - ema) * (2 / (period + 1)) + ema over each later value in
\* order; for a sequence of fewer than `period` values it returns the mean of
\* all of them.
C17_EmaRecurrence ==
    (call = "_calculate_ema") =>
        /\ (Len(prices.vals) >= ret.params[1]) =>
               ret.out = Ok(EmaAsSpecified(prices.vals, ret.params[1]))
        /\ (Len(prices.vals) >= 1 /\ Len(prices.vals) < ret.params[1]) =>
               ret.out = Ok(Bind(Rats(prices.vals), LAMBDA v : MeanOfFirst(v, Len(v))))

\* An EMA whose seed takes in closes off the run and that has a later close
\* to carry it through.
C17_Witness ==
    /\ call = "_calculate_ema"
    /\ ret.params[1] = MACD_SLOW + MACD_SIGNAL
    /\ Len(prices.vals) > ret.params[1]
    /\ prices.vals[ret.params[1]] # Base
    /\ prices.vals[Len(prices.vals)] # prices.vals[ret.params[1]]
    /\ ~ret.raised
    /\ ret.out.value # R(Base)

\* The indicators that voted buy, and those that voted sell, from the
\* indicators analyze_stock returns.
BuyVoters(ind) ==
    {i \in {"rsi", "macd", "bollinger", "momentum"} :
        \/ i = "rsi" /\ QLt(ind.rsi, R(RSI_OVERSOLD))
        \/ i = "macd" /\ ind.macd = "buy"
        \/ i = "bollinger" /\ ind.bollinger = "buy"
        \/ i = "momentum" /\ QSign(ind.momentum) > 0}

SellVoters(ind) ==
    {i \in {"rsi", "macd", "bollinger", "momentum"} :
        \/ i = "rsi" /\ QGt(ind.rsi, R(RSI_OVERBOUGHT))
        \/ i = "macd" /\ ind.macd = "sell"
        \/ i = "bollinger" /\ ind.bollinger = "sell"
        \/ i = "momentum" /\ QSign(ind.momentum) < 0}

\* C18: a single indicator never drives a recommendation: whenever
\* analyze_stock returns 'buy' (respectively 'sell'), at least two distinct
\* indicators among RSI, MACD, Bollinger and momentum voted buy (sell).
C18_NoSingleIndicator ==
    (call = "analyze_stock" /\ ~ret.raised) =>
        /\ (ret.value.recommendation = "buy") =>
               Cardinality(BuyVoters(ret.value.indicators)) >= 2
        /\ (ret.value.recommendation = "sell") =>
               Cardinality(SellVoters(ret.value.indicators)) >= 2

\* A 'buy' returned for a list of at least 30 closes.
C18_Witness ==
    /\ call = "analyze_stock"
    /\ ~ret.raised
    /\ Len(prices.vals) >= MIN_PRICES
    /\ ret.value.recommendation = "buy"
    /\ "rsi" \in BuyVoters(ret.value.indicators)

\* C28: in every result of analyze_stock, recommendation is 'neutral' if and
\* only if confidence is 'low'; a 'buy' or 'sell' carries 'medium' or 'high'.
C28_NeutralIffLow ==
    (call = "analyze_stock" /\ ~ret.raised) =>
        /\ (ret.value.recommendation = "neutral") <=> (ret.value.confidence = "low")
        /\ (ret.value.recommendation \in {"buy", "sell"}) =>
               ret.value.confidence \in {"medium", "high"}

\* A 'sell' of at least 30 closes, returned with confidence 'medium'.
C28_Witness ==
    /\ call = "analyze_stock"
    /\ ~ret.raised
    /\ Len(prices.vals) >= MIN_PRICES
    /\ ret.value.recommendation = "sell"
    /\ ret.value.confidence = "medium"

-----------------------------------------------------------------------------
(* Claims about analysis.TechnicalAnalyzer (specification SpecReport).     *)

\* generate_signals has returned: on a mapping of the caller's, or on the
\* mapping analyze_stock returned.
SignalsDone == call \in {"generate_signals", "report"}

\* The result of an error path: the one reason is an error text.
ErrorResult(v) ==
    /\ Len(v.reasons) = 1
    /\ v.reasons[1][1] \in {"Error generating signals", "Error:"}

\* The vote of each indicator, read off the mapping (0: it abstains).
CrossVote(a) ==
    IF Has(a, "sma_50") /\ Has(a, "sma_200")
    THEN (IF NumGt(a["sma_50"], a["sma_200"]) THEN 1 ELSE -1)
    ELSE 0

RsiVote(a) ==
    IF ~Has(a, "rsi") THEN 0
    ELSE IF NumLt(a["rsi"], R(30)) THEN 1
    ELSE IF NumGt(a["rsi"], R(70)) THEN -1
    ELSE 0

MacdVote(a) ==
    IF Has(a, "macd") /\ Has(a, "macd_signal")
    THEN (IF NumGt(a["macd"], a["macd_signal"]) THEN 1 ELSE -1)
    ELSE 0

BollVote(a) ==
    IF ~(Has(a, "bb_lower") /\ Has(a, "bb_upper") /\ Has(a, "close")) THEN 0
    ELSE IF Len(a["close"]) = 0 THEN 0
    ELSE IF NumLt(a["close"][Len(a["close"])], a["bb_lower"]) THEN 1
    ELSE IF NumGt(a["close"][Len(a["close"])], a["bb_upper"]) THEN -1
    ELSE 0

\* The indicator (1 crossover, 2 RSI, 3 MACD, 4 Bollinger) and the vote that a
\* reason text stands for.
VoteOfReason(reason) ==
    CASE reason[1] = "SMA 50 above SMA 200 (Golden Cross)" -> <<1, 1>>
      [] reason[1] = "SMA 50 below SMA 200 (Death Cross)"  -> <<1, -1>>
      [] reason[1] = "RSI oversold at"                     -> <<2, 1>>
      [] reason[1] = "RSI overbought at"                   -> <<2, -1>>
      [] reason[1] = "MACD above signal line"              -> <<3, 1>>
      [] reason[1] = "MACD below signal line"              -> <<3, -1>>
      [] reason[1] = "Price below lower Bollinger Band"    -> <<4, 1>>
      [] reason[1] = "Price above upper Bollinger Band"    -> <<4, -1>>
      [] OTHER                                             -> <<0, 0>>

NonZero(p) == p[2] # 0

\* The non-zero votes in the order crossover, RSI, MACD, Bollinger.
VotesCast(a) ==
    SelectSeq(<< <<1, CrossVote(a)>>, <<2, RsiVote(a)>>,
                 <<3, MacdVote(a)>>, <<4, BollVote(a)>> >>, NonZero)

CountOf(reasons, v) == Cardinality({i \in 1..Len(reasons) : VoteOfReason(reasons[i])[2] = v})

\* C4: whenever generate_signals returns off the error path, strength is the sum
\* of the votes of crossover, RSI, MACD and Bollinger (+1, -1, or 0 when the
\* indicator abstains), reasons holds one entry per non-zero vote in that
\* order, strength = bullish reasons - bearish reasons, and |strength| <= 4.
C4_StrengthIsSumOfVotes ==
    (SignalsDone /\ ~ret.raised /\ ~ErrorResult(ret.value)) =>
        /\ ret.value.strength =
               CrossVote(analysis) + RsiVote(analysis) + MacdVote(analysis) + BollVote(analysis)
        /\ [i \in 1..Len(ret.value.reasons) |-> VoteOfReason(ret.value.reasons[i])]
               = VotesCast(analysis)
        /\ ret.value.strength = CountOf(ret.value.reasons, 1) - CountOf(ret.value.reasons, -1)
        /\ ret.value.strength \in (-4)..4

\* All four indicators voted, two for and two against: four reasons, strength 0.
C4_Witness ==
    /\ call = "generate_signals"
    /\ ~ret.raised
    /\ Len(ret.value.reasons) = 4
    /\ ret.value.strength = 0
    /\ CrossVote(analysis) = 1
    /\ BollVote(analysis) = -1

\* The place of a recommendation on the five-level scale.
Rank(rec) ==
    CASE rec = "STRONG SELL" -> -2
      [] rec = "SELL"        -> -1
      [] rec = "HOLD"        -> 0
      [] rec = "BUY"         -> 1
      [] rec = "STRONG BUY"  -> 2
      [] OTHER               -> 3

LevelOf(strength) ==
    IF strength >= 2 THEN "STRONG BUY"
    ELSE IF strength = 1 THEN "BUY"
    ELSE IF strength = 0 THEN "HOLD"
    ELSE IF strength = -1 THEN "SELL"
    ELSE "STRONG SELL"

\* C5: the recommendation generate_signals returns is the level of its strength
\* (>= 2 STRONG BUY, 1 BUY, 0 HOLD, -1 SELL, <= -2 STRONG SELL), hence one of
\* the five values, and the mapping from strength is monotone.
C5_RecommendationOfStrength ==
    /\ (SignalsDone /\ ~ret.raised) =>
           /\ ret.value.recommendation = LevelOf(ret.value.strength)
           /\ Rank(ret.value.recommendation) \in (-2)..2
    /\ \A s1, s2 \in (-4)..4 :
           s1 <= s2 => Rank(_get_recommendation(s1)) <= Rank(_get_recommendation(s2))

\* A strength of exactly 2 was answered with STRONG BUY.
C5_Witness ==
    /\ SignalsDone
    /\ ~ret.raised
    /\ ret.value.strength = 2
    /\ ret.value.recommendation = "STRONG BUY"

\* The HOLD default of generate_signals' handler.
HoldDefault(v) ==
    /\ v.recommendation = "HOLD"
    /\ v.strength = 0
    /\ Len(v.reasons) = 1
    /\ v.reasons[1][1] = "Error:"

\* A value that the voting compares is None.
NoneCompared(a) ==
    \/ Has(a, "sma_50") /\ Has(a, "sma_200") /\ (a["sma_50"] = None \/ a["sma_200"] = None)
    \/ Has(a, "rsi") /\ a["rsi"] = None
    \/ Has(a, "macd") /\ Has(a, "macd_signal") /\ (a["macd"] = None \/ a["macd_signal"] = None)

\* C8: neither analyze_stock nor generate_signals ends in a raised exception;
\* an exception raised in analyze_stock's body yields {}, and one raised while
\* generate_signals votes (a compared value that is None, for one) yields
\* HOLD, strength 0 and a single reason.
C8_NoFailurePropagates ==
    /\ (call = "report_analyze_stock") =>
           /\ ~ret.raised
           /\ AnalyzeBody(data).raised => ret.value = EmptyDict
    /\ SignalsDone =>
           /\ ~ret.raised
           /\ (analysis # EmptyDict /\ SignalsBody(analysis).raised) => HoldDefault(ret.value)
           /\ NoneCompared(analysis) => HoldDefault(ret.value)

\* A mapping whose rsi is None, and whose crossover voted before the failure,
\* was answered with the HOLD default.
C8_Witness ==
    /\ call = "generate_signals"
    /\ Has(analysis, "rsi")
    /\ analysis["rsi"] = None
    /\ Has(analysis, "sma_50") /\ analysis["sma_50"] = R(1)
    /\ Has(analysis, "sma_200") /\ analysis["sma_200"] = R(0)
    /\ ~ret.raised
    /\ ret.value = [recommendation |-> "HOLD", strength |-> 0,
                    reasons |-> << <<"Error:", "TypeError">> >>]

EmptySignals ==
    [recommendation |-> "HOLD", strength |-> 0,
     reasons |-> << <<"Error generating signals">> >>]

\* C9: for an empty bar series analyze_stock returns {}, and generate_signals
\* on that empty analysis returns HOLD, strength 0 and the one reason
\* 'Error generating signals'.
C9_EmptySeries ==
    /\ (call = "report_analyze_stock" /\ Len(data) = 0) => ret = Ok(EmptyDict)
    /\ (call = "report" /\ Len(data) = 0) =>
           (analysis = EmptyDict /\ ret = Ok(EmptySignals))
    /\ (call = "generate_signals" /\ analysis = EmptyDict) => ret = Ok(EmptySignals)

\* The report of an empty bar series.
C9_Witness ==
    /\ call = "report"
    /\ Len(data) = 0
    /\ analysis = EmptyDict
    /\ ret = Ok(EmptySignals)

HasReason(v, text) == \E i \in 1..Len(v.reasons) : v.reasons[i][1] = text

\* The latest close of the bar series, after the fill of its missing rows.
LatestClose == BFill(FFill(data))[Len(data)]

\* C10: in the report of a bar series that analyze_stock could analyse, a latest
\* close below bb_lower is voted +1 with the reason 'Price below lower Bollinger
\* Band', and one above bb_upper -1 with 'Price above upper Bollinger Band'.
C10_CloseAgainstBands ==
    (call = "report" /\ analysis # EmptyDict /\ ~ret.raised) =>
        /\ NumLt(LatestClose, analysis["bb_lower"]) =>
               HasReason(ret.value, "Price below lower Bollinger Band")
        /\ NumGt(LatestClose, analysis["bb_upper"]) =>
               HasReason(ret.value, "Price above upper Bollinger Band")

\* A Python list: a sequence, of any length.
IsList(x) == DOMAIN x = 1..Len(x)

\* C11: the report of every bar series (generate_signals on what analyze_stock
\* returned) is a mapping with the keys recommendation, strength and reasons,
\* where reasons is a list and -3 <= strength <= 3.
C11_ReportShape ==
    (call = "report") =>
        /\ ~ret.raised
        /\ DOMAIN ret.value = {"recommendation", "strength", "reasons"}
        /\ IsList(ret.value.reasons)
        /\ ret.value.strength \in (-3)..3

\* The report of a series of at least 200 rows on which crossover, RSI and MACD
\* all voted.
C11_Witness ==
    /\ call = "report"
    /\ Len(data) >= FULL_ROWS
    /\ analysis # EmptyDict
    /\ ~ret.raised
    /\ Len(ret.value.reasons) = 3

\* 0 <= x <= 100, x a number.
WithinRsiRange(x) == x.k = "num" /\ QGe(x, R(0)) /\ QLe(x, R(100))

\* No close of the last `period` rows of df is below the close before it.
NoLossInWindow(df, period) ==
    \A i \in (Len(df) - period + 1)..Len(df) : i > 1 => ~NumLt(df[i], df[i - 1])

\* C12: the RSI is within 0..100 (the rsi indicator analyze_stock returns from
\* calculate_rsi, and the 'rsi' entry of the mapping analysis.analyze_stock
\* returns for a series that holds a close, whenever present), and it is
\* exactly 100 when no loss falls in the window, a constant series included.
C12_RsiBounded ==
    /\ (call = "analyze_stock" /\ ~ret.raised) =>
           WithinRsiRange(ret.value.indicators.rsi)
    /\ (call = "report_analyze_stock" /\ Has(analysis, "rsi")
            /\ ~HasNaN(BFill(FFill(data)))) =>
           /\ WithinRsiRange(analysis["rsi"])
           /\ NoLossInWindow(BFill(FFill(data)), RSI_PERIOD) => analysis["rsi"] = R(100)

-----------------------------------------------------------------------------
(* Claims about both analyzers (specification SpecAll).                    *)

\* lower <= middle <= upper, the bands being a + b * sqrt(v).
BandsOrdered(lower, middle, upper) ==
    /\ ~QLtSurd(middle, lower)
    /\ ~QGtSurd(middle, upper)

\* The arithmetic mean of the last `period` elements of xs.
MeanOfLast(xs, period) ==
    QDiv(SeqSum(SubSeq(xs, Len(xs) - period + 1, Len(xs))), R(period))

\* C13: for every sequence of at least `period` closes and every multiplier
\* >= 0, the bands of calculate_bollinger_bands and of _calc_bollinger_bands
\* satisfy lower <= middle <= upper, middle being the mean of the last
\* `period` closes.
C13_BandsOrdered ==
    /\ (call = "calculate_bollinger_bands" /\ Len(prices.vals) >= ret.params[1]) =>
           /\ ~ret.raised
           /\ BandsOrdered(ret.out.value.lower_band, ret.out.value.middle_band,
                           ret.out.value.upper_band)
           /\ ret.out.value.middle_band = MeanOfLast(Rats(prices.vals), ret.params[1])
    /\ (call = "_calc_bollinger_bands" /\ Len(data) >= ret.params[1] /\ ~HasNaN(data)) =>
           /\ BandsOrdered(ret.out.value.lower, ret.out.value.middle, ret.out.value.upper)
           /\ ret.out.value.middle = MeanOfLast(data, ret.params[1])

\* Bands of calculate_bollinger_bands strictly apart: the window varies and the
\* multiplier is not 0.
C13_Witness ==
    /\ call = "calculate_bollinger_bands"
    /\ Len(prices.vals) >= ret.params[1]
    /\ ~ret.raised
    /\ QLtSurd(ret.out.value.middle_band, ret.out.value.upper_band)
    /\ QGtSurd(ret.out.value.middle_band, ret.out.value.lower_band)

-----------------------------------------------------------------------------
(* Claims about the averages and the missing rows of                       *)
(* analysis.TechnicalAnalyzer (specification SpecReport).                   *)

\* C16: for every price sequence of length >= period, _calc_sma is the
\* arithmetic mean of the last `period` closes, whatever the earlier rows hold
\* (missing rows included); for length < period it returns None.
C16_SmaIsMeanOfLast ==
    (call = "_calc_sma") =>
        /\ (Len(data) < ret.params[1]) => ret.out.value = None
        /\ (Len(data) >= ret.params[1] /\ ~HasNaN(LastN(data, ret.params[1]))) =>
               ret.out.value = MeanOfLast(data, ret.params[1])

\* The 50-row average of a frame of at least 200 rows whose first rows are
\* missing and whose last close is off the run.
C16_Witness ==
    /\ call = "_calc_sma"
    /\ ret.params[1] = SMA_SHORT
    /\ Len(data) >= FULL_ROWS
    /\ IsNaN(data[1])
    /\ data[Len(data)] # R(Base)
    /\ IsNum(ret.out.value)
    /\ ret.out.value # R(Base)

\* At least 200 rows, some of them missing.
BlockMissing(xs) == Len(xs) >= FULL_ROWS /\ HasNaN(xs)

SomePresent(xs) == \E i \in 1..Len(xs) : ~IsNaN(xs[i])

\* The rows before (after) row i that are present.
PresentBefore(xs, i) == {j \in 1..(i - 1) : ~IsNaN(xs[j])}
PresentAfter(xs, i) == {j \in (i + 1)..Len(xs) : ~IsNaN(xs[j])}

\* Row i with its missing value taken from the previous present row or, when
\* there is none, from the next one.
FilledRow(xs, i) ==
    IF ~IsNaN(xs[i]) THEN xs[i]
    ELSE IF PresentBefore(xs, i) # {}
         THEN xs[CHOOSE j \in PresentBefore(xs, i) : \A m \in PresentBefore(xs, i) : m <= j]
    ELSE IF PresentAfter(xs, i) # {}
         THEN xs[CHOOSE j \in PresentAfter(xs, i) : \A m \in PresentAfter(xs, i) : m >= j]
    ELSE NaN

FilledAsSpecified(xs) == AsList([i \in 1..Len(xs) |-> FilledRow(xs, i)])

\* The averages of the mapping m are those of the series v.
AveragesOf(m, v) ==
    /\ ~HasNaN(v)
    /\ m["sma_50"] = MeanOfLast(v, SMA_SHORT)
    /\ m["sma_200"] = MeanOfLast(v, SMA_LONG)
    /\ m["bb_middle"] = MeanOfLast(v, BB_PERIOD)

FiveRecommendations == {"STRONG BUY", "BUY", "HOLD", "SELL", "STRONG SELL"}

\* C19: on a bar series of at least 200 rows with a block of missing rows,
\* analyze_stock fills each missing value forward from the previous row and
\* then backward from the next row, so that no missing value reaches an
\* indicator, and returns a non-empty mapping from which generate_signals
\* produces one of the five recommendations.
C19_MissingRowsFilled ==
    /\ (call = "report_analyze_stock" /\ BlockMissing(data)) =>
           /\ ~ret.raised
           /\ analysis # EmptyDict
           /\ SomePresent(data) =>
                  Bind(FilledAsSpecified(data), LAMBDA v : AveragesOf(analysis, v))
    /\ (call = "report" /\ BlockMissing(data)) =>
           /\ ~ret.raised
           /\ ret.value.recommendation \in FiveRecommendations

\* The report on a series of at least 200 rows whose first rows are missing
\* and whose other rows are present.
C19_Witness ==
    /\ call = "report"
    /\ Len(data) >= FULL_ROWS
    /\ IsNaN(data[1])
    /\ ~IsNaN(data[Len(data)])
    /\ analysis # EmptyDict
    /\ ~IsNaN(analysis["sma_200"])
    /\ ~ret.raised
    /\ ret.value.recommendation \in FiveRecommendations

IndicatorKeys ==
    {"sma_50", "sma_200", "ema_50", "ema_200", "rsi", "macd", "macd_signal",
     "macd_hist", "bb_upper", "bb_middle", "bb_lower"}

TrendKeys == {"is_uptrend", "is_overbought", "is_oversold"}

\* The averages of more rows than the series has are None.
ShortHistoryIsNone(m, n) ==
    /\ (n < SMA_SHORT) => (m["sma_50"] = None /\ m["ema_50"] = None)
    /\ (n < SMA_LONG) => (m["sma_200"] = None /\ m["ema_200"] = None)

\* C27: analyze_stock returns the empty mapping only for an empty series or
\* one of fewer than 14 rows; for every series of 14 or more numeric rows,
\* series shorter than 200 rows included, it returns a non-empty mapping in
\* which each indicator lacking history is None and is_uptrend,
\* is_overbought and is_oversold are present.
C27_EmptyOnlyBelowMinimum ==
    (call = "report_analyze_stock" /\ ~HasNaN(data)) =>
        /\ ~ret.raised
        /\ (analysis = EmptyDict) <=> (Len(data) < MIN_ROWS)
        /\ (Len(data) >= MIN_ROWS) =>
               /\ DOMAIN analysis = IndicatorKeys \cup TrendKeys
               /\ ShortHistoryIsNone(analysis, Len(data))

-----------------------------------------------------------------------------
(* nse_trader/backtesting.py: Position, as tests/test_backtesting.py uses  *)
(* it and as the specification describes it.                               *)

\* Position(symbol, entry_price, entry_time, quantity, side): an open trade;
\* exit_price, exit_time, pnl and return_pct are set when it is closed.
Position(symbol, entry_price, entry_time, quantity, side) ==
    [symbol      |-> symbol,
     entry_price |-> entry_price,
     entry_time  |-> entry_time,
     quantity    |-> quantity,
     side        |-> side,
     exit_price  |-> None,
     exit_time   |-> None,
     pnl         |-> None,
     return_pct  |-> None]

\* The price difference taken as for a long trade whatever the side: the
\* mutant of PositionPnl that ignores `side`.
PositionPnl_LongOnly(pos, exit_price) ==
    QMul(QSub(exit_price, pos.entry_price), R(pos.quantity))

\* (exit_price - entry_price) * quantity for long,
\* (entry_price - exit_price) * quantity for short.
PositionPnl(pos, exit_price) ==
    IF pos.side = "long"
    THEN QMul(QSub(exit_price, pos.entry_price), R(pos.quantity))
    ELSE QMul(QSub(pos.entry_price, exit_price), R(pos.quantity))

\* Position.close(exit_price, exit_time).
Position_close(pos, exit_price, exit_time) ==
    Bind(PositionPnl(pos, exit_price), LAMBDA pnl :
        [pos EXCEPT !.exit_price = exit_price,
                    !.exit_time = exit_time,
                    !.pnl = pnl,
                    !.return_pct =
                        QMul(QDiv(pnl, QMul(pos.entry_price, R(pos.quantity))), R(100))])

-----------------------------------------------------------------------------
(* Positions: those of test_position and their neighbours.                 *)

TEST_ENTRY == 100
TEST_QUANTITY == 100
TEST_LONG_EXIT == 110
TEST_SHORT_EXIT == 90
MaxLots == 3
MaxHeld == 2

EntryPrices == {R(TEST_SHORT_EXIT), R(TEST_ENTRY), R(TEST_LONG_EXIT)}
ExitPrices == EntryPrices \cup {Q(2 * TEST_ENTRY + 1, 2)}
Quantities == (1..MaxLots) \cup {TEST_QUANTITY}
Sides == {"long", "short"}

PositionInputs ==
    {Position("STOCK", e, 0, q, sd) : e \in EntryPrices, q \in Quantities, sd \in Sides}

InitPosition ==
    /\ prices = NoPrices
    /\ data = <<>>
    /\ analysis = EmptyDict
    /\ call = "none"
    /\ ret = NoRet
    /\ position \in PositionInputs
    /\ stack = <<>>
    /\ bt = None

\* pos.close(exit_price, exit_time) on the open position.
ClosePosition ==
    /\ call = "none"
    /\ position # None
    /\ \E exit_price \in ExitPrices, held \in 1..MaxHeld :
         /\ call' = "Position.close"
         /\ position' = Position_close(position, exit_price, position.entry_time + held)
         /\ ret' = Ok(None)
    /\ UNCHANGED <<prices, data, analysis, stack, bt>>

NextPosition == ClosePosition

SpecPosition == InitPosition /\ [][NextPosition]_vars

-----------------------------------------------------------------------------
(* Claims about Position (specification SpecPosition).                     *)

\* C20: closing a Position computes pnl = (exit_price - entry_price) *
\* quantity for a long position and (entry_price - exit_price) * quantity for
\* a short one, and return_pct = pnl / (entry_price * quantity) * 100; long
\* 100 -> 110 and short 100 -> 90 with quantity 100 both give pnl 1000 and
\* return_pct 10.
C20_PositionClose ==
    (call = "Position.close") =>
        LET gain == IF position.side = "long"
                    THEN QSub(position.exit_price, position.entry_price)
                    ELSE QSub(position.entry_price, position.exit_price)
            cost == QMul(position.entry_price, R(position.quantity))
        IN  /\ position.pnl = QMul(gain, R(position.quantity))
            /\ QMul(position.return_pct, cost) = QMul(position.pnl, R(100))
            /\ (/\ position.entry_price = R(100)
                /\ position.quantity = 100
                /\ \/ position.side = "long" /\ position.exit_price = R(110)
                   \/ position.side = "short" /\ position.exit_price = R(90)) =>
                   (position.pnl = R(1000) /\ position.return_pct = R(10))

\* The short position of test_position, closed.
C20_Witness ==
    /\ call = "Position.close"
    /\ position.side = "short"
    /\ position.entry_price = R(TEST_ENTRY)
    /\ position.quantity = TEST_QUANTITY
    /\ position.exit_price = R(TEST_SHORT_EXIT)
    /\ position.pnl = R(1000)
    /\ position.return_pct = R(10)

-----------------------------------------------------------------------------
(* nse_trader/data_fetcher.py: calculate_entry_exit_points and             *)
(* get_historical_data, which call each other.                             *)

LOOKBACK == 30
MIN_HISTORY == 14

\* round(x, 2) of x >= 0: to the nearest hundredth, a tie to the even one.
Round2(x) ==
    Bind((200 * x.n + x.d) \div (2 * x.d), LAMBDA up :
        IF (200 * x.n + x.d) % (2 * x.d) = 0 /\ up % 2 = 1
        THEN Q(up - 1, 100) ELSE Q(up, 100))

Symbols == {"SEPLAT", "NESTLE", "GTCO", "UNLISTED"}

\* price_map.get(symbol, 100.0)
BasePrice(symbol) ==
    CASE symbol = "SEPLAT" -> R(2800)
      [] symbol = "NESTLE" -> R(950)
      [] symbol = "GTCO"   -> Q(435, 10)
      [] OTHER             -> R(100)

\* random.uniform(-0.02, 0.02): its two ends and its middle.
Fluctuations == {Q(-2, 100), R(0), Q(2, 100)}

get_real_time_price(symbol, fluctuation) ==
    Round2(QMul(BasePrice(symbol), QAdd(R(1), fluctuation)))

\* random.seed(i); random.random() for i = 0 .. 29, in thousandths.
RandomOfSeed ==
    <<844, 134, 956, 237, 236, 622, 793, 323, 226, 463,
      571, 452, 474, 259, 106, 965, 361, 521, 181, 677,
      905, 164, 958, 924, 712, 376, 747, 648, 112, 548>>

\* The `lookback` bars of get_historical_data, each with its close only:
\* close = current_close * (1 + (random - 0.5) * 0.05), in units of 1/20000.
History(current_close, lookback) ==
    AsList([i \in 1..lookback |-> [close |-> current_close * (19500 + RandomOfSeed[i])]])

\* handler.get_analysis(): it raises, returns nothing, or returns an analysis
\* whose indicators hold the close.
ProviderAnswers ==
    {[k |-> "raises"], [k |-> "nothing"]}
    \cup {[k |-> "analysis", close |-> c] : c \in {0, Base}}

\* What get_historical_data returns: [] or a dict of two keys.
EmptyList == [k |-> "list", vals |-> <<>>]
HistoricalDict(history, entry_exit) ==
    [k |-> "dict", historical_data |-> history, entry_exit_points |-> entry_exit]

\* bool(x) and len(x) of a list or a dict: the length of a dict is the number
\* of its keys.
PyLen(x) == IF x.k = "list" THEN Len(x.vals) ELSE Cardinality(DOMAIN x \ {"k"})
Truthy(x) == PyLen(x) > 0

VolatilityFactor(real_price) ==
    IF QGt(real_price, R(1000)) THEN Q(3, 100)
    ELSE IF QGt(real_price, R(500)) THEN Q(4, 100)
    ELSE IF QLt(real_price, R(50)) THEN Q(8, 100)
    ELSE Q(5, 100)

\* The dictionary returned by the except clause of calculate_entry_exit_points.
ErrorDefaults(symbol) ==
    [symbol |-> symbol, price |-> R(100), stop_loss |-> R(95), take_profit |-> R(115),
     type |-> "hold", strength |-> "neutral", rsi |-> R(50), macd |-> "neutral",
     bollinger |-> "neutral"]

EntryExitResult(symbol, price, real_price, type, strength, rsi, macd, bollinger) ==
    Bind(VolatilityFactor(real_price), LAMBDA volatility_factor :
        Ok([symbol      |-> symbol,
            price       |-> price,
            stop_loss   |-> Round2(QMul(real_price, QSub(R(1), volatility_factor))),
            take_profit |-> Round2(QMul(real_price,
                                        QAdd(R(1), QMul(volatility_factor, R(3))))),
            type        |-> type,
            strength    |-> strength,
            rsi         |-> rsi,
            macd        |-> macd,
            bollinger   |-> bollinger]))

\* The entry price of a 'buy' is 1% above the current price, of a 'sell' 1%
\* below it.
EntryPrice(real_price, signal_type) ==
    IF signal_type = "buy" THEN Round2(QMul(real_price, Q(101, 100)))
    ELSE IF signal_type = "sell" THEN Round2(QMul(real_price, Q(99, 100)))
    ELSE real_price

\* The block under `if historical_data and len(historical_data) > 14`: the
\* elements of a dict are its keys, strings, and d['close'] of a string raises.
IndicatorBlock(symbol, real_price, historical_data) ==
    IF historical_data.k = "dict" THEN Raise("TypeError")
    ELSE Bind(AsList([i \in 1..Len(historical_data.vals) |-> historical_data.vals[i].close]),
              LAMBDA closes :
         Bind(calculate_macd(closes, MACD_FAST, MACD_SLOW, MACD_SIGNAL), LAMBDA macd_data :
         Bind(calculate_bollinger_bands(closes, BB_PERIOD, BB_STD_DEV), LAMBDA bollinger_data :
         Bind(analyze_stock(Closes(closes)), LAMBDA an :
             IF macd_data.raised THEN macd_data
             ELSE IF bollinger_data.raised THEN bollinger_data
             ELSE IF an.raised THEN an
             ELSE EntryExitResult(symbol,
                                  EntryPrice(real_price, an.value.recommendation),
                                  real_price, an.value.recommendation, an.value.confidence,
                                  calculate_rsi(closes, RSI_PERIOD), macd_data.value.signal,
                                  bollinger_data.value.signal)))))

\* calculate_entry_exit_points once get_historical_data has returned.
EntryExitBody(symbol, real_price, historical_data) ==
    IF Truthy(historical_data) /\ PyLen(historical_data) > MIN_HISTORY
    THEN IndicatorBlock(symbol, real_price, historical_data)
    ELSE EntryExitResult(symbol, real_price, real_price, "hold", "neutral", R(50),
                         "neutral", "neutral")

\* except Exception: return the defaults.
EntryExitTry(symbol, real_price, historical_data) ==
    Bind(EntryExitBody(symbol, real_price, historical_data), LAMBDA r :
        IF r.raised THEN ErrorDefaults(symbol) ELSE r.value)

-----------------------------------------------------------------------------
(* The calls of the two methods as frames of the interpreter's stack.  The *)
(* interpreter raises RecursionError in a call made with RecursionLimit    *)
(* frames under way; both methods catch it as they catch every Exception.  *)

RecursionLimit == 6

Frame(fn, symbol) ==
    [fn |-> fn, symbol |-> symbol, pc |-> "start", real_price |-> None,
     history |-> <<>>, historical_data |-> None, caught |-> "none", value |-> None]

Returning(frame, value, caught) ==
    [frame EXCEPT !.pc = "done", !.value = value, !.caught = caught]

Top == stack[Len(stack)]
Rest == SubSeq(stack, 1, Len(stack) - 1)

InitFetch ==
    /\ prices = NoPrices
    /\ data = <<>>
    /\ analysis = EmptyDict
    /\ call = "none"
    /\ ret = NoRet
    /\ position = None
    /\ stack = <<>>
    /\ bt = None

\* A caller (app.py lines 105 and 125) calls one of the two methods.
CallFetcher ==
    /\ call = "none"
    /\ stack = <<>>
    /\ \E fn \in {"calculate_entry_exit_points", "get_historical_data"}, symbol \in Symbols :
         /\ call' = fn
         /\ stack' = <<Frame(fn, symbol)>>
    /\ UNCHANGED <<prices, data, analysis, ret, position, bt>>

\* calculate_entry_exit_points up to its call of get_historical_data.
EntryExitStart ==
    /\ stack # <<>>
    /\ Top.fn = "calculate_entry_exit_points"
    /\ Top.pc = "start"
    /\ \E fluctuation \in Fluctuations :
         stack' =
             IF Len(stack) >= RecursionLimit
             THEN Append(Rest, Returning(Top, ErrorDefaults(Top.symbol), "RecursionError"))
             ELSE Rest \o <<[Top EXCEPT !.pc = "await",
                                        !.real_price =
                                            get_real_time_price(Top.symbol, fluctuation)],
                             Frame("get_historical_data", Top.symbol)>>
    /\ UNCHANGED <<prices, data, analysis, call, ret, position, bt>>

\* get_historical_data up to its call of calculate_entry_exit_points.
HistoricalStart ==
    /\ stack # <<>>
    /\ Top.fn = "get_historical_data"
    /\ Top.pc = "start"
    /\ \E answer \in ProviderAnswers :
         stack' =
             IF answer.k = "raises" THEN Append(Rest, Returning(Top, EmptyList, "Exception"))
             ELSE IF answer.k = "nothing" THEN Append(Rest, Returning(Top, EmptyList, "none"))
             ELSE IF Len(stack) >= RecursionLimit
             THEN Append(Rest, Returning(Top, EmptyList, "RecursionError"))
             ELSE Rest \o <<[Top EXCEPT !.pc = "await",
                                        !.history = History(answer.close, LOOKBACK)],
                             Frame("calculate_entry_exit_points", Top.symbol)>>
    /\ UNCHANGED <<prices, data, analysis, call, ret, position, bt>>

\* The caller's statements after the call that returned v.
Resume(frame, v) ==
    IF frame.fn = "calculate_entry_exit_points"
    THEN [Returning(frame, EntryExitTry(frame.symbol, frame.real_price, v), "none")
             EXCEPT !.historical_data = v]
    ELSE Returning(frame, HistoricalDict(frame.history, v), "none")

\* The innermost call returns, to the method that called it or to the caller
\* of the outermost call.
ReturnStep ==
    /\ stack # <<>>
    /\ Top.pc = "done"
    /\ IF Len(stack) = 1
       THEN /\ stack' = <<>>
            /\ ret' = [raised |-> FALSE, value |-> Top.value, frame |-> Top]
       ELSE /\ stack' = Append(SubSeq(stack, 1, Len(stack) - 2),
                               Resume(stack[Len(stack) - 1], Top.value))
            /\ UNCHANGED ret
    /\ UNCHANGED <<prices, data, analysis, call, position, bt>>

NextFetch ==
    \/ CallFetcher
    \/ EntryExitStart
    \/ HistoricalStart
    \/ ReturnStep

SpecFetch == InitFetch /\ [][NextFetch]_vars

-----------------------------------------------------------------------------
(* Claims about NSEDataFetcher (specification SpecFetch).                  *)

\* C29: a call to calculate_entry_exit_points or to get_historical_data
\* terminates after a number of nested calls between the two methods that
\* the methods themselves bound, also when the data provider returns an
\* analysis on every request: no call is ended by the interpreter running
\* out of frames.
C29_NestingBounded ==
    \A i \in 1..Len(stack) : stack[i].caught # "RecursionError"

\* The outermost call of calculate_entry_exit_points has returned, and its
\* own call of get_historical_data had data from the provider and its 30 bars.
SuppliedEntryExit ==
    /\ call = "calculate_entry_exit_points"
    /\ stack = <<>>
    /\ ret.frame.historical_data.k = "dict"
    /\ Len(ret.frame.historical_data.historical_data) = LOOKBACK

\* C30: when the provider supplies data and get_historical_data generates its
\* 30 bars, calculate_entry_exit_points takes 'type' and 'strength' from
\* analyze_stock over the closes of those bars, a 'buy' or 'sell' with the
\* entry price moved 1% up or down among them.
C30_SignalsFromHistory ==
    SuppliedEntryExit =>
        /\ ret.value.type \in {"buy", "sell", "neutral"}
        /\ ret.value.strength \in {"low", "medium", "high"}
        /\ ret.value.price = EntryPrice(ret.frame.real_price, ret.value.type)

-----------------------------------------------------------------------------
(* nse_trader/backtesting.py: Backtester and BacktestResult, as the        *)
(* specification describes them and as tests/test_backtesting.py uses them. *)

INITIAL_CAPITAL == 100000
FAST_TEST == 1
SLOW_TEST == 2

Decisions == {"enter_long", "enter_short", "exit", "hold"}

\* The simple moving average of the `period` closes up to bar i.
SmaAt(closes, period, i) ==
    QDiv(SeqSum(Rats(SubSeq(closes, i - period + 1, i))), R(period))

\* The SMA crossover that reads an average over too short a history as 0.0
\* instead of holding: the mutant of SmaCrossover.
SmaCrossover_SentinelAsValue(closes, i, fast, slow) ==
    Bind(<<IF i - 1 < fast THEN R(0) ELSE SmaAt(closes, fast, i - 1),
           IF i - 1 < slow THEN R(0) ELSE SmaAt(closes, slow, i - 1),
           IF i < fast THEN R(0) ELSE SmaAt(closes, fast, i),
           IF i < slow THEN R(0) ELSE SmaAt(closes, slow, i)>>, LAMBDA m :
       IF QLe(m[1], m[2]) /\ QGt(m[3], m[4]) THEN "enter_long"
       ELSE IF QGe(m[1], m[2]) /\ QLt(m[3], m[4]) THEN "exit"
       ELSE "hold")

\* The SMA-crossover strategy at bar i, from the closes up to bar i: enter
\* long when the fast SMA crosses above the slow one, exit when it crosses
\* below, hold otherwise and while the history is too short.
SmaCrossover(closes, i, fast, slow) ==
    IF i < slow + 1 THEN "hold"
    ELSE Bind(<<SmaAt(closes, fast, i - 1), SmaAt(closes, slow, i - 1),
                SmaAt(closes, fast, i), SmaAt(closes, slow, i)>>, LAMBDA m :
             IF QLe(m[1], m[2]) /\ QGt(m[3], m[4]) THEN "enter_long"
             ELSE IF QGe(m[1], m[2]) /\ QLt(m[3], m[4]) THEN "exit"
             ELSE "hold")

\* The decision of the strategy at bar i.
Decide(strategy, closes, i) ==
    IF strategy.kind = "sma_crossover"
    THEN SmaCrossover(closes, i, strategy.fast, strategy.slow)
    ELSE strategy.decisions[i]

\* What the open position is worth at a close: its cost and its unrealized
\* P&L; nothing when no position is open.
OpenValue(pos, close) ==
    IF pos = None THEN R(0)
    ELSE QAdd(QMul(pos.entry_price, R(pos.quantity)), PositionPnl(pos, close))

\* Step 3: a Position sized from the available capital at the current close.
EnterAt(b, i, close, side) ==
    Bind((b.cash.n \div b.cash.d) \div b.bars[i], LAMBDA quantity :
        [b EXCEPT !.open = Position("STOCK", close, i, quantity, side),
                  !.cash = QSub(b.cash, QMul(close, R(quantity)))])

\* Step 4: the open Position is closed at the current close, its P&L goes to
\* cash, and it is appended to the position list.
ExitAt(b, i, close) ==
    Bind(Position_close(b.open, close, i), LAMBDA closed :
        [b EXCEPT !.open = None,
                  !.cash = QAdd(b.cash, OpenValue(b.open, close)),
                  !.positions = Append(b.positions, closed)])

\* Steps 3 and 4 without the test for an open position: the mutant of
\* ApplyDecision that enters whatever is open.
ApplyDecision_EnterAlways(b, i, close, d) ==
    IF d \in {"enter_long", "enter_short"}
    THEN EnterAt(b, i, close, IF d = "enter_long" THEN "long" ELSE "short")
    ELSE IF d = "exit" /\ b.open # None THEN ExitAt(b, i, close)
    ELSE b

\* Steps 3 and 4 for decision d at bar i.
ApplyDecision(b, i, close, d) ==
    IF d \in {"enter_long", "enter_short"} /\ b.open = None
    THEN EnterAt(b, i, close, IF d = "enter_long" THEN "long" ELSE "short")
    ELSE IF d = "exit" /\ b.open # None THEN ExitAt(b, i, close)
    ELSE b

\* Step 5 with the cash alone: the mutant of EquityEntry that leaves the
\* open position out of the equity.
EquityEntry_CashOnly(b, i, close) == <<i, b.cash>>

\* Step 5: (timestamp, equity) for bar i.
EquityEntry(b, i, close) == <<i, QAdd(b.cash, OpenValue(b.open, close))>>

\* One bar of the run that trades at the close of the bar after the current
\* one when there is one: the mutant of ProcessBar that looks ahead.
ProcessBar_LookAhead(b) ==
    Bind(b.i + 1, LAMBDA i : Bind(R(b.bars[Min(b.i + 2, Len(b.bars))]), LAMBDA close :
    Bind(Decide(b.strategy, b.bars, i), LAMBDA d :
    Bind(ApplyDecision(b, i, close, d), LAMBDA after :
        [after EXCEPT !.i = i,
                      !.decisions = Append(b.decisions, d),
                      !.equity_curve = Append(b.equity_curve,
                                              EquityEntry(after, i, close))]))))

\* One bar of the run: steps 1 to 5 for bar b.i + 1.
ProcessBar(b) ==
    Bind(b.i + 1, LAMBDA i : Bind(R(b.bars[b.i + 1]), LAMBDA close :
    Bind(Decide(b.strategy, b.bars, i), LAMBDA d :
    Bind(ApplyDecision(b, i, close, d), LAMBDA after :
        [after EXCEPT !.i = i,
                      !.decisions = Append(b.decisions, d),
                      !.equity_curve = Append(b.equity_curve,
                                              EquityEntry(after, i, close))]))))

\* calculate_metrics counting a position that broke even as a win: the
\* mutant of calculate_metrics.
calculate_metrics_BreakEvenWins(positions, equity_curve, initial_capital) ==
    Bind(AsList([j \in 1..Len(positions) |-> positions[j].pnl]), LAMBDA pnls :
    Bind(SeqSum(AsList([j \in 1..Len(pnls) |-> IF QSign(pnls[j]) > 0 THEN pnls[j] ELSE R(0)])),
         LAMBDA gains :
    Bind(SeqSum(AsList([j \in 1..Len(pnls) |-> IF QSign(pnls[j]) < 0 THEN QNeg(pnls[j]) ELSE R(0)])),
         LAMBDA losses :
        [total_trades  |-> Len(pnls),
         win_rate      |-> IF Len(pnls) = 0 THEN R(0)
                           ELSE QDiv(R(100 * Cardinality({j \in 1..Len(pnls) :
                                                            QSign(pnls[j]) >= 0})),
                                     R(Len(pnls))),
         profit_factor |-> IF QIsZero(losses) THEN Inf ELSE QDiv(gains, losses),
         total_return  |-> IF Len(equity_curve) = 0 THEN R(0)
                           ELSE QMul(QSub(QDiv(equity_curve[Len(equity_curve)][2],
                                               R(initial_capital)), R(1)), R(100))])))

\* BacktestResult.calculate_metrics
calculate_metrics(positions, equity_curve, initial_capital) ==
    Bind(AsList([j \in 1..Len(positions) |-> positions[j].pnl]), LAMBDA pnls :
    Bind(SeqSum(AsList([j \in 1..Len(pnls) |-> IF QSign(pnls[j]) > 0 THEN pnls[j] ELSE R(0)])),
         LAMBDA gains :
    Bind(SeqSum(AsList([j \in 1..Len(pnls) |-> IF QSign(pnls[j]) < 0 THEN QNeg(pnls[j]) ELSE R(0)])),
         LAMBDA losses :
        [total_trades  |-> Len(pnls),
         win_rate      |-> IF Len(pnls) = 0 THEN R(0)
                           ELSE QDiv(R(100 * Cardinality({j \in 1..Len(pnls) :
                                                            QSign(pnls[j]) > 0})),
                                     R(Len(pnls))),
         profit_factor |-> IF QIsZero(losses) THEN Inf ELSE QDiv(gains, losses),
         total_return  |-> IF Len(equity_curve) = 0 THEN R(0)
                           ELSE QMul(QSub(QDiv(equity_curve[Len(equity_curve)][2],
                                               R(initial_capital)), R(1)), R(100))])))

\* The end of the series without the forced closure: the mutant of
\* FinishSeries that leaves an open position open.
FinishSeries_NoForcedClose(b) ==
    [b EXCEPT !.done = TRUE,
              !.metrics = calculate_metrics(b.positions, b.equity_curve, INITIAL_CAPITAL)]

\* The end of the series: a position still open is closed at the final
\* close, and the metrics are computed.
FinishSeries(b) ==
    Bind(IF b.open # None THEN ExitAt(b, Len(b.bars), R(b.bars[Len(b.bars)])) ELSE b,
         LAMBDA closed :
        [closed EXCEPT !.done = TRUE,
                       !.metrics = calculate_metrics(closed.positions, closed.equity_curve,
                                                     INITIAL_CAPITAL)])

-----------------------------------------------------------------------------
(* Runs: series of at most MaxBars closes, each Base or MaxDelta above it, *)
(* under the SMA-crossover strategy or under a strategy that decides       *)
(* anything at each bar.                                                   *)

MaxBars == 4

BarCloses == {Base, Base + MaxDelta}

Series == UNION {[1..n -> BarCloses] : n \in 0..MaxBars}

Strategies(n) ==
    {[kind |-> "sma_crossover", fast |-> FAST_TEST, slow |-> SLOW_TEST]}
    \cup {[kind |-> "decisions", decisions |-> ds] : ds \in [1..n -> Decisions]}

\* Backtester(initial_capital).run(data, strategy) before its first bar.
NewRun(bars, strategy) ==
    [mode |-> "run", bars |-> bars, strategy |-> strategy, i |-> 0,
     cash |-> R(INITIAL_CAPITAL), open |-> None, positions |-> <<>>,
     equity_curve |-> <<>>, decisions |-> <<>>, done |-> FALSE, metrics |-> None]

\* The closed positions of test_backtest_result and the lists made of them.
TestPositions ==
    {Position_close(Position("STOCK", R(t[1]), 0, TEST_QUANTITY, "long"), R(t[2]), 1) :
         t \in {<<100, 110>>, <<110, 105>>, <<120, 130>>, <<100, 100>>}}

\* A BacktestResult whose positions were assigned by the caller.
GivenResult(positions) ==
    [mode |-> "result", bars |-> <<>>, strategy |-> None, i |-> 0,
     cash |-> R(INITIAL_CAPITAL), open |-> None, positions |-> positions,
     equity_curve |-> <<<<1, R(100000)>>, <<2, R(101000)>>, <<3, R(100500)>>,
                        <<4, R(101500)>>>>,
     decisions |-> <<>>, done |-> FALSE, metrics |-> None]

\* The lists of at most three of the test's positions.
PositionLists == UNION {[1..n -> TestPositions] : n \in 0..3}

InitBacktest ==
    /\ prices = NoPrices
    /\ data = <<>>
    /\ analysis = EmptyDict
    /\ call = "none"
    /\ ret = NoRet
    /\ position = None
    /\ stack = <<>>
    /\ \/ \E bars \in Series : \E strategy \in Strategies(Len(bars)) :
              bt = NewRun(AsList(bars), strategy)
       \/ \E positions \in PositionLists : bt = GivenResult(AsList(positions))

\* The run processes its next bar.
StepBar ==
    /\ bt # None
    /\ bt.mode = "run"
    /\ ~bt.done
    /\ bt.i < Len(bt.bars)
    /\ bt' = ProcessBar(bt)
    /\ call' = "Backtester.run"
    /\ UNCHANGED <<prices, data, analysis, ret, position, stack>>

\* The series has ended: the run returns its BacktestResult.
FinishRun ==
    /\ bt # None
    /\ bt.mode = "run"
    /\ ~bt.done
    /\ bt.i = Len(bt.bars)
    /\ bt' = FinishSeries(bt)
    /\ call' = "Backtester.run"
    /\ ret' = Ok(bt'.metrics)
    /\ UNCHANGED <<prices, data, analysis, position, stack>>

\* result.calculate_metrics() on the given result.
CallCalculateMetrics ==
    /\ bt # None
    /\ bt.mode = "result"
    /\ call = "none"
    /\ bt' = [bt EXCEPT !.metrics = calculate_metrics(bt.positions, bt.equity_curve,
                                                      INITIAL_CAPITAL)]
    /\ call' = "calculate_metrics"
    /\ ret' = Ok(bt'.metrics)
    /\ UNCHANGED <<prices, data, analysis, position, stack>>

NextBacktest ==
    \/ StepBar
    \/ FinishRun
    \/ CallCalculateMetrics

SpecBacktest == InitBacktest /\ [][NextBacktest]_vars

-----------------------------------------------------------------------------
(* Claims about Backtester and BacktestResult (specification SpecBacktest). *)

IsClosed(pos) == pos.exit_price # None /\ pos.pnl # None /\ pos.return_pct # None

\* xs is ys with elements appended to it.
Extends(ys, xs) == Len(xs) <= Len(ys) /\ SubSeq(ys, 1, Len(xs)) = xs

\* closed is pos, closed at time t at the close of bar t.
ClosedFrom(closed, pos, bars, t) ==
    /\ IsClosed(closed)
    /\ closed.entry_price = pos.entry_price
    /\ closed.entry_time = pos.entry_time
    /\ closed.quantity = pos.quantity
    /\ closed.side = pos.side
    /\ closed.exit_time = t
    /\ closed.exit_price = R(bars[t])

\* C21: every Position opened during a run goes from OPEN to CLOSED exactly
\* once, on an exit decision or by forced closure at the final bar's close
\* when the series ends; every Position of the returned result is closed,
\* and a closed Position never changes.
C21_ClosedExactlyOnce ==
    [][(bt.mode = "run") =>
          /\ \A j \in 1..Len(bt'.positions) : IsClosed(bt'.positions[j])
          /\ Extends(bt'.positions, bt.positions)
          /\ (bt.open # None /\ bt'.open # bt.open) =>
                 /\ bt'.open = None
                 /\ Len(bt'.positions) = Len(bt.positions) + 1
                 /\ ClosedFrom(bt'.positions[Len(bt'.positions)], bt.open, bt.bars, bt'.i)
                 /\ \/ bt'.done /\ bt'.i = Len(bt.bars)
                    \/ ~bt'.done /\ bt'.decisions[bt'.i] = "exit"
          /\ (bt.open # None /\ bt'.open = bt.open) =>
                 (bt'.positions = bt.positions /\ ~bt'.done)
          /\ (bt.open = None) => bt'.positions = bt.positions
          /\ bt'.done => bt'.open = None]_bt

\* A returned result with a position closed by an exit decision and one
\* closed by force at the end of the series.
C21_Witness ==
    /\ bt # None
    /\ bt.mode = "run"
    /\ bt.done
    /\ Len(bt.positions) = 2
    /\ bt.decisions[Len(bt.bars)] # "exit"
    /\ bt.positions[2].exit_time = Len(bt.bars)
    /\ bt.positions[1].side = "short"

\* The position list is in the order of closing.
ChronologicalByExit(positions) ==
    \A j \in 1..(Len(positions) - 1) :
        positions[j].exit_time <= positions[j + 1].exit_time

\* pos is a Position opened on side `side` at bar i at its close.
OpenedAt(pos, bars, i, side) ==
    /\ pos # None
    /\ pos.entry_price = R(bars[i])
    /\ pos.entry_time = i
    /\ pos.side = side
    /\ pos.quantity > 0
    /\ pos.exit_price = None

\* C22: at every bar of a run at most one Position is open: an enter
\* decision opens a Position only when none is open, an exit decision
\* closes the open Position and appends it to the position list only when
\* one is open, any other combination leaves cash, the open position and
\* the position list unchanged, and the position list is in chronological
\* order of closing.
C22_OneOpenPosition ==
    [][(bt.mode = "run") =>
          /\ ChronologicalByExit(bt'.positions)
          /\ (bt'.i = bt.i + 1) =>
                LET i == bt'.i
                    d == bt'.decisions[i]
                    entering == d \in {"enter_long", "enter_short"} /\ bt.open = None
                    exiting  == d = "exit" /\ bt.open # None
                IN  /\ entering =>
                          /\ OpenedAt(bt'.open, bt.bars, i,
                                      IF d = "enter_long" THEN "long" ELSE "short")
                          /\ bt'.positions = bt.positions
                    /\ exiting =>
                          /\ bt'.open = None
                          /\ Len(bt'.positions) = Len(bt.positions) + 1
                          /\ Extends(bt'.positions, bt.positions)
                          /\ ClosedFrom(bt'.positions[Len(bt'.positions)], bt.open,
                                        bt.bars, i)
                    /\ (~entering /\ ~exiting) =>
                          /\ bt'.cash = bt.cash
                          /\ bt'.open = bt.open
                          /\ bt'.positions = bt.positions]_bt

\* A run whose second enter decision found a position open and whose second
\* exit decision found none: one position was opened and closed.
C22_Witness ==
    /\ bt # None
    /\ bt.mode = "run"
    /\ bt.decisions = <<"enter_long", "enter_short", "exit", "exit">>
    /\ bt.open = None
    /\ Len(bt.positions) = 1
    /\ bt.positions[1].side = "long"
    /\ bt.positions[1].entry_time = 1
    /\ bt.positions[1].exit_time = 3

\* What an open position is worth at a close: the shares at the close for a
\* long one, the proceeds of the sale less the cost of buying back for a
\* short one.
MarkToMarket(pos, close) ==
    IF pos = None THEN R(0)
    ELSE IF pos.side = "long" THEN QMul(R(pos.quantity), close)
    ELSE QMul(R(pos.quantity), QSub(QMul(R(2), pos.entry_price), close))

\* C23: a run appends exactly one (timestamp, equity) entry to the equity
\* curve for every bar processed, whatever the decision: after k bars the
\* curve has k entries in bar order, and each entry is the cash plus the
\* value of the open position at that bar's close.
C23_EquityEveryBar ==
    [][(bt.mode = "run") =>
          /\ Len(bt'.equity_curve) = bt'.i
          /\ \A k \in 1..Len(bt'.equity_curve) : bt'.equity_curve[k][1] = k
          /\ (bt'.i = bt.i + 1) =>
                bt'.equity_curve =
                    Append(bt.equity_curve,
                           <<bt'.i, QAdd(bt'.cash,
                                         MarkToMarket(bt'.open, R(bt.bars[bt'.i])))>>)
          /\ (bt'.i = bt.i) => bt'.equity_curve = bt.equity_curve]_bt

\* Three bars processed, the third on a hold decision with a short position
\* open whose value has moved the equity away from the initial capital.
C23_Witness ==
    /\ bt # None
    /\ bt.mode = "run"
    /\ bt.i = 3
    /\ Len(bt.equity_curve) = 3
    /\ bt.decisions[3] = "hold"
    /\ bt.open # None
    /\ bt.open.side = "short"
    /\ bt.equity_curve[3][2] # bt.cash
    /\ bt.equity_curve[3][2] # R(INITIAL_CAPITAL)

\* The run was made with the SMA-crossover strategy over a series shorter
\* than its slow average, the empty series included, and has returned.
ShortCrossoverRun ==
    /\ bt # None
    /\ bt.mode = "run"
    /\ bt.done
    /\ bt.strategy.kind = "sma_crossover"
    /\ Len(bt.bars) < bt.strategy.slow

\* C24: a run of the SMA-crossover strategy over an empty series, or over
\* one too short for the strategy's averages, returns a result with
\* total_trades = 0 and total_return = 0.0 and does not raise.
C24_ShortSeriesNoTrades ==
    ShortCrossoverRun =>
        /\ call = "Backtester.run"
        /\ ~ret.raised
        /\ ret.value.total_trades = 0
        /\ ret.value.total_return = R(0)
        /\ bt.positions = <<>>

\* A returned crossover run over one bar, fewer than the slow average needs.
C24_Witness ==
    /\ ShortCrossoverRun
    /\ Len(bt.bars) = 1
    /\ Len(bt.equity_curve) = 1
    /\ ~ret.raised
    /\ ret.value.total_trades = 0

\* The positions of the list with a profit, and those with a loss.
Winners(positions) == {j \in 1..Len(positions) : QGt(positions[j].pnl, R(0))}
Losers(positions) == {j \in 1..Len(positions) : QLt(positions[j].pnl, R(0))}

\* The sum of the pnl of the positions at the indices js.
RECURSIVE PnlSum(_, _)
PnlSum(positions, js) ==
    IF js = {} THEN R(0)
    ELSE LET j == CHOOSE x \in js : TRUE
         IN  QAdd(positions[j].pnl, PnlSum(positions, js \ {j}))

\* C25: calculate_metrics sets total_trades to the number of positions,
\* win_rate to 100 * (number of positions with pnl > 0) / total_trades (0
\* when there are no trades) and profit_factor to (sum of positive pnl) /
\* |sum of negative pnl|; three positions with pnl +1000, -500, +1000 give
\* win_rate 200/3 and profit_factor 2000/500.
C25_Metrics ==
    (bt # None /\ bt.metrics # None) =>
        /\ bt.metrics.total_trades = Len(bt.positions)
        /\ bt.metrics.win_rate =
               IF Len(bt.positions) = 0 THEN R(0)
               ELSE Q(100 * Cardinality(Winners(bt.positions)), Len(bt.positions))
        /\ (Losers(bt.positions) # {}) =>
               bt.metrics.profit_factor =
                   QDiv(PnlSum(bt.positions, Winners(bt.positions)),
                        QNeg(PnlSum(bt.positions, Losers(bt.positions))))
        /\ (call = "calculate_metrics") => ret = Ok(bt.metrics)

\* calculate_metrics was called on the three positions of
\* test_backtest_result: pnl +1000, -500, +1000.
C25_Witness ==
    /\ bt # None
    /\ call = "calculate_metrics"
    /\ Len(bt.positions) = 3
    /\ bt.positions[1].pnl = R(1000)
    /\ bt.positions[2].pnl = R(-500)
    /\ bt.positions[3].pnl = R(1000)
    /\ ret.value.total_trades = 3
    /\ ret.value.win_rate = Q(200, 3)
    /\ ret.value.profit_factor = R(4)

\* The run b after k more bars.
RECURSIVE Replay(_, _)
Replay(b, k) == IF k = 0 THEN b ELSE ProcessBar(Replay(b, k - 1))

\* The run of the same strategy and capital over the first i bars alone.
PrefixRun(bars, strategy, i) == Replay(NewRun(SubSeq(bars, 1, i), strategy), i)

\* C26: the Backtester has no look-ahead: after bar i the decisions, the
\* open position, the cash, the closed positions and the equity entries are
\* those of a run of the same strategy and capital over bars 1..i alone, so
\* runs over series that agree up to bar i agree up to bar i; and a returned
\* result is the one a second run over the same series returns.
C26_NoLookAhead ==
    (bt # None /\ bt.mode = "run") =>
        LET prefix == PrefixRun(bt.bars, bt.strategy, bt.i)
            again  == IF bt.done THEN FinishSeries(prefix) ELSE prefix
        IN  /\ bt.decisions = again.decisions
            /\ bt.open = again.open
            /\ bt.cash = again.cash
            /\ bt.positions = again.positions
            /\ bt.equity_curve = again.equity_curve
            /\ bt.metrics = again.metrics

\* Two bars into a longer series whose third close differs from the second,
\* with a position open since the first bar under the crossover strategy or
\* a decision sequence.
C26_Witness ==
    /\ bt # None
    /\ bt.mode = "run"
    /\ ~bt.done
    /\ bt.i = 2
    /\ Len(bt.bars) > 2
    /\ bt.bars[3] # bt.bars[2]
    /\ bt.open # None
    /\ bt.open.entry_time = 1
    /\ bt.equity_curve[2][2] # R(INITIAL_CAPITAL)

=============================================================================
